---- MODULE Spec2Model ----
(***************************************************************************)
(* Pokevendor: the card-resolution pipeline.                               *)
(*   - fetchWithRetry        backend/services/pokemonTcg.js, TCGdex.js     *)
(*   - the catalog adapters  backend/services/*.js                         *)
(*   - the resolution chain  frontend/app.js handleUpload and the          *)
(*                           backend route GET /api/cards/search-sheet     *)
(***************************************************************************)
EXTENDS Integers, Sequences, FiniteSets, TLC

VARIABLES
    fwPc,        \* position of the running fetchWithRetry call
    fwModule,    \* the module whose fetchWithRetry runs
    fwI,         \* the loop variable i
    fwAttempts,  \* number of instance.get calls made by this call
    fwOutcomes,  \* what the remote server did on each attempt, in order
    fwDelays,    \* the delays slept so far, in order
    fwResult,    \* what the call handed to its caller
    rsPc,          \* position of handleUpload (frontend/app.js)
    rsName,        \* aiCard.name
    rsCards,       \* handleUpload's local cards
    rsSource,      \* handleUpload's local source
    rsMsg,         \* what showMessage last put into uploadMsg
    rsRaised,      \* an exception reached handleUpload's catch block
    uploadBtnDisabled,
    allFoundCards, \* page state of frontend/app.js
    currentPage,
    rsCalls,       \* the sources this call has invoked, in order
    rsInFlight,    \* the sources with a request outstanding
    rsSheet,       \* what the spreadsheet source did: condition, list, response
    rsTcg,         \* what TCGdex did: condition, list
    rsPrev,        \* the outcome of an earlier, finished resolution
    SET_ID_MAP,    \* pokemonTcg.js: set name -> set id, filled at start-up
    adPc,          \* position of the running adapter search
    adAdapter,     \* which search operation runs
    adArgs,        \* its arguments
    adQueries,     \* the remote queries it has issued, in order
    adAnswers,     \* what the source answered to each
    adPrev,        \* an earlier, finished search: arguments, queries, answers, result
    adFault,       \* what went wrong with its last remote request
    adResult,      \* what it handed to its caller
    rtReq,         \* the HTTP request the backend handled last
    rtQueries,     \* the catalog queries that handler sent out, in order
    rtResp,        \* its HTTP answer
    dbCards,       \* the rows of the database table 'cards'
    uploadsDir,    \* how many files the routes have left in backend/uploads
    ivSel,         \* the candidate the admin picked on a page, and the list price
    ivPayload,     \* the body the page posted to /api/add-to-inventory
    inventory,     \* the rows of the database table 'inventory'
    pfFn,          \* the function applied last (ranking, price extraction, matching)
    pfArgs,        \* its arguments
    pfOut,         \* what it returned
    pgPc,          \* where handleUpload stands on the page with its paging controls
    pgUploads,     \* the uploads made so far
    detailRequests, \* fetchCardsFromTCGdex: the detail requests in flight
    displayCalls,  \* the displayCards calls that wait for their inventory counts
    cardList,      \* the items of #cardList: data-index and the card drawn with it
    cardSelectionShown, \* #cardSelection, which holds the list, is displayed
    pagination,    \* #pagination: shown, and the disabled flags of its buttons
    pgAdd          \* the last click on "Add to Inventory": card drawn, card added

fwVars == <<fwPc, fwModule, fwI, fwAttempts, fwOutcomes, fwDelays, fwResult>>

rsVars == <<rsPc, rsName, rsCards, rsSource, rsMsg, rsRaised, uploadBtnDisabled,
            allFoundCards, currentPage, rsCalls, rsInFlight, rsSheet, rsTcg, rsPrev>>

adVars == <<SET_ID_MAP, adPc, adAdapter, adArgs, adQueries, adAnswers, adFault, adResult,
            adPrev>>

rtVars == <<rtReq, rtQueries, rtResp, dbCards, uploadsDir>>

\* The variables of the backend routes and of the pages behind them.
ivVars == <<ivSel, ivPayload, inventory>>

pfVars == <<pfFn, pfArgs, pfOut>>

pgVars == <<pgPc, pgUploads, detailRequests, displayCalls, cardList, cardSelectionShown,
            pagination, pgAdd>>

exVars == <<rtVars, ivVars, pfVars, pgVars>>

vars == <<fwPc, fwModule, fwI, fwAttempts, fwOutcomes, fwDelays, fwResult,
          rsPc, rsName, rsCards, rsSource, rsMsg, rsRaised, uploadBtnDisabled,
          allFoundCards, currentPage, rsCalls, rsInFlight, rsSheet, rsTcg, rsPrev,
          SET_ID_MAP, adPc, adAdapter, adArgs, adQueries, adAnswers, adFault, adResult, adPrev,
          rtReq, rtQueries, rtResp, dbCards, uploadsDir, ivSel, ivPayload, inventory,
          pfFn, pfArgs, pfOut,
          pgPc, pgUploads, detailRequests, displayCalls, cardList, cardSelectionShown,
          pagination, pgAdd>>

(***************************************************************************)
(* JavaScript strings: a string is a sequence of one-character strings.   *)
(***************************************************************************)

\* The characters of the model in UTF-16 code unit order (the order of the
\* JavaScript operators < and > on strings).
CodeOrder ==
    <<" ", "&", "'", ",", "-", "0", "1", "2", "3", "4", "5", "6", "7", "8", "9", ";", "A", "B",
      "C", "D", "E", "F", "G", "H", "I", "J", "K", "L", "M", "N", "O", "P", "Q", "R", "S", "T",
      "U", "V", "W", "X", "Y", "Z", "_", "a", "b", "c", "d", "e", "f", "g", "h", "i", "j", "k",
      "l", "m", "n", "o", "p", "q", "r", "s", "t", "u", "v", "w", "x", "y", "z", "U+FF06">>
UpperCase ==
    <<"A", "B", "C", "D", "E", "F", "G", "H", "I", "J", "K", "L", "M", "N", "O", "P", "Q", "R",
      "S", "T", "U", "V", "W", "X", "Y", "Z">>
LowerCase ==
    <<"a", "b", "c", "d", "e", "f", "g", "h", "i", "j", "k", "l", "m", "n", "o", "p", "q", "r",
      "s", "t", "u", "v", "w", "x", "y", "z">>

CharCode(c) == CHOOSE i \in 1..Len(CodeOrder) : CodeOrder[i] = c

\* String.prototype.toLowerCase
LowerChar(c) ==
    IF \E i \in 1..Len(UpperCase) : UpperCase[i] = c
    THEN LowerCase[CHOOSE i \in 1..Len(UpperCase) : UpperCase[i] = c]
    ELSE c
ToLowerCase(str) == [i \in 1..Len(str) |-> LowerChar(str[i])]

\* String.prototype.startsWith / includes
StartsWith(str, pre) == Len(pre) <= Len(str) /\ SubSeq(str, 1, Len(pre)) = pre
Includes(str, sub) ==
    \E i \in 1..(Len(str) - Len(sub) + 1) : SubSeq(str, i, i + Len(sub) - 1) = sub

\* a < b on strings: lexicographic by code unit, a proper prefix is smaller.
RECURSIVE StrLess(_, _)
StrLess(a, b) ==
    IF b = <<>> THEN FALSE
    ELSE IF a = <<>> THEN TRUE
    ELSE IF Head(a) = Head(b) THEN StrLess(Tail(a), Tail(b))
    ELSE CharCode(Head(a)) < CharCode(Head(b))

\* a.localeCompare(b) for strings of lower-case letters, digits and spaces,
\* where the collation order and the code unit order agree: -1, 0 or 1.
LocaleCompare(a, b) == IF a = b THEN 0 ELSE IF StrLess(a, b) THEN 0 - 1 ELSE 1

\* null / undefined where a string is expected.
Null == <<"null">>
Falsy(str) == str = <<>> \/ str = Null
\* a || b for strings
OrElse(a, b) == IF Falsy(a) THEN b ELSE a

Unknown == <<"U", "n", "k", "n", "o", "w", "n">>

(***************************************************************************)
(* fetchWithRetry                                                          *)
(***************************************************************************)

\* pokemonTcg.js: const MAX_RETRIES = 5; const INITIAL_BACKOFF_MS = 1000;
MAX_RETRIES == 5
INITIAL_BACKOFF_MS == 1000
\* TCGdex.js declares the same two constants inside its fetchWithRetry.
TCGDEX_MAX_RETRIES == 5
TCGDEX_INITIAL_BACKOFF_MS == 1000
\* Math.floor(Math.random() * 500) is an integer of 0 .. JITTER_SPAN - 1.
JITTER_SPAN == 500

Modules == {"pokemonTcg", "TCGdex"}

MaxRetriesPlusOne(m) == IF m = "TCGdex" THEN TCGDEX_MAX_RETRIES + 1 ELSE MAX_RETRIES + 1

MaxRetries(m) == IF m = "TCGdex" THEN TCGDEX_MAX_RETRIES ELSE MAX_RETRIES

InitialBackoff(m) == IF m = "TCGdex" THEN TCGDEX_INITIAL_BACKOFF_MS ELSE INITIAL_BACKOFF_MS

\* What one instance.get does.  axios resolves on a 2xx status and rejects
\* otherwise; a rejection without err.response is a network-level failure
\* (no answer, timeout).  body tells two successful responses apart.
OkResponses == {[ok |-> TRUE, response |-> TRUE, status |-> 200, body |-> b] : b \in {"b1", "b2"}}
HttpFailStatuses == {304, 400, 404, 429, 500, 503}
HttpErrors == {[ok |-> FALSE, response |-> TRUE, status |-> s, body |-> "none"] : s \in HttpFailStatuses}
NetworkError == [ok |-> FALSE, response |-> FALSE, status |-> 0, body |-> "none"]
Errors == HttpErrors \cup {NetworkError}

\* The values Math.floor(Math.random() * 500) is sampled at: both ends of
\* its range.
Jitters == {0, JITTER_SPAN - 1}

RECURSIVE Pow2(_)
Pow2(n) == IF n = 0 THEN 1 ELSE 2 * Pow2(n - 1)

RECURSIVE SumSeq(_)
SumSeq(s) == IF s = <<>> THEN 0 ELSE Head(s) + SumSeq(Tail(s))

\* const status = err.response ? err.response.status : 'Network Error';
\* status !== 429 && status < 500 && status !== 'Network Error'
\* ('Network Error' < 500 is false in JavaScript: the string converts to NaN.)
NonRetryableAlways(err) == TRUE

NonRetryableNever(err) == FALSE

NonRetryable(err) ==
    IF err.response
    THEN err.status # 429 /\ err.status < 500
    ELSE FALSE

\* if (i === MAX_RETRIES - 1 || (...)) throw err;
ShouldThrow(m, i, err) == i = MaxRetries(m) - 1 \/ NonRetryable(err)

\* INITIAL_BACKOFF_MS * Math.pow(2, i) + Math.floor(Math.random() * 500)
BackoffLinear(m, i, jitter) == InitialBackoff(m) * (i + 1) + jitter

Backoff(m, i, jitter) == InitialBackoff(m) * Pow2(i) + jitter

\* throw err;  -- the caught axios error itself, not a new one
FwThrownGeneric(err) == [ok |-> FALSE, response |-> FALSE, status |-> 0, body |-> "none"]

FwThrown(err) == err

NoResult == [kind |-> "none", value |-> NetworkError]

FwInit ==
    /\ fwPc = "idle"
    /\ fwModule = "pokemonTcg"
    /\ fwI = 0
    /\ fwAttempts = 0
    /\ fwOutcomes = <<>>
    /\ fwDelays = <<>>
    /\ fwResult = NoResult

\* A caller enters fetchWithRetry: for (let i = 0; ...
FwCall ==
    /\ fwPc = "idle"
    /\ \E m \in Modules : fwModule' = m
    /\ fwPc' = "loop"
    /\ fwI' = 0
    /\ UNCHANGED <<fwAttempts, fwOutcomes, fwDelays, fwResult>>
    /\ UNCHANGED <<rsVars, adVars, exVars>>

\* return await instance.get(url, config);   -- the request succeeds
FwAttemptOk ==
    /\ fwPc = "loop"
    /\ fwI < MaxRetries(fwModule)
    /\ \E r \in OkResponses :
        /\ fwOutcomes' = Append(fwOutcomes, r)
        /\ fwResult' = [kind |-> "returned", value |-> r]
    /\ fwAttempts' = fwAttempts + 1
    /\ fwPc' = "done"
    /\ UNCHANGED <<fwModule, fwI, fwDelays>>
    /\ UNCHANGED <<rsVars, adVars, exVars>>

\* instance.get rejects: the catch block either rethrows err or computes the
\* delay and starts the timer.
FwAttemptFail ==
    /\ fwPc = "loop"
    /\ fwI < MaxRetries(fwModule)
    /\ \E err \in Errors, jitter \in Jitters :
        /\ fwOutcomes' = Append(fwOutcomes, err)
        /\ IF ShouldThrow(fwModule, fwI, err)
           THEN /\ fwPc' = "done"
                /\ fwResult' = [kind |-> "thrown", value |-> FwThrown(err)]
                /\ fwDelays' = fwDelays
           ELSE /\ fwPc' = "sleep"
                /\ fwResult' = fwResult
                /\ fwDelays' = Append(fwDelays, Backoff(fwModule, fwI, jitter))
    /\ fwAttempts' = fwAttempts + 1
    /\ UNCHANGED <<fwModule, fwI>>
    /\ UNCHANGED <<rsVars, adVars, exVars>>

\* The timer fires: the loop goes on with i++.
FwWake ==
    /\ fwPc = "sleep"
    /\ fwI' = fwI + 1
    /\ fwPc' = "loop"
    /\ UNCHANGED <<fwModule, fwAttempts, fwOutcomes, fwDelays, fwResult>>
    /\ UNCHANGED <<rsVars, adVars, exVars>>

\* (The loop cannot end with i = MAX_RETRIES: the attempt with
\* i = MAX_RETRIES - 1 returns or throws.)
FwNext == FwCall \/ FwAttemptOk \/ FwAttemptFail \/ FwWake


(***************************************************************************)
(* The catalog data the sources hold                                       *)
(***************************************************************************)

\* The longest candidate list a source answers with.
MaxCards == 2

Min(a, b) == IF a < b THEN a ELSE b
Max(a, b) == IF a > b THEN a ELSE b
\* list.slice(0, n): a negative n counts from the end.
TakeFirst(list, n) ==
    IF n < 0 THEN SubSeq(list, 1, Max(Len(list) + n, 0))
    ELSE SubSeq(list, 1, Min(n, Len(list)))
\* The sub-list of list at the positions keep, in list order.
RECURSIVE Pick(_, _, _)
Pick(list, keep, i) ==
    IF i > Len(list) THEN <<>>
    ELSE (IF i \in keep THEN <<list[i]>> ELSE <<>>) \o Pick(list, keep, i + 1)

Digit(i) == <<"0", "1", "2", "3">>[(i % 4) + 1]

\* aiCard.name: "Pika" and "Pika V".
QueryNames == {<<"P", "i", "k", "a">>, <<"P", "i", "k", "a", " ", "V">>}

\* Rows of the master_catalog sheet: sku, card_name, set.
SheetRowNames == << <<"P", "i", "k", "a", " ", "V">>, <<"p", "i", "k", "a">> >>
SheetRow(i) ==
    [sku       |-> <<"S", Digit(i)>>,
     card_name |-> SheetRowNames[(i % 2) + 1],
     name      |-> <<>>,
     set       |-> <<"B", " ", Digit(i)>>]
SheetRows == [i \in 1..MaxCards |-> SheetRow(i)]

\* Entries of TCGdex's /cards list: id, name (the list carries no set).
TcgNames == << <<"P", "i", "k", "a">>, <<"P", "i", "k", "a", " ", "e", "x">> >>
TcgListCard(i) ==
    [id |-> <<"t", Digit(i)>>, name |-> TcgNames[(i % 2) + 1], setId |-> <<>>,
     source |-> "undefined", origin |-> "tcgdex", detailed |-> FALSE]
TcgCards == [i \in 1..MaxCards |-> TcgListCard(i)]
\* What /cards/{id} answers: the card with its set.
TcgDetail(card) == [card EXCEPT !.setId = <<"s", "v", card.id[2]>>, !.detailed = TRUE]

(***************************************************************************)
(* searchCardsInSheet and GET /api/cards/search-sheet                      *)
(***************************************************************************)

\* 'limit=100' in handleUpload's request; parseInt(limit) || 100 in the route.
REQUESTED_SHEET_LIMIT == 100

\* set id: (sheetCard.set || '').toLowerCase().replace(/\s+/g, '-')
RECURSIVE ReplaceSpaceRuns(_, _)
ReplaceSpaceRuns(str, by) ==
    IF str = <<>> THEN <<>>
    ELSE IF Head(str) = " "
         THEN IF Len(str) > 1 /\ str[2] = " "
              THEN ReplaceSpaceRuns(Tail(str), by)
              ELSE by \o ReplaceSpaceRuns(Tail(str), by)
         ELSE <<Head(str)>> \o ReplaceSpaceRuns(Tail(str), by)

formatSheetCard(row) ==
    [id |-> row.sku, name |-> OrElse(row.card_name, OrElse(row.name, Unknown)),
     setId |-> ReplaceSpaceRuns(ToLowerCase(row.set), <<"-">>),
     source |-> "google-sheet", origin |-> "sheet", detailed |-> FALSE]

\* What one call of searchCardsInSheet meets.
\*   unconfigured : no SPREADSHEET_ID / API_KEY
\*   error        : the Sheets API call throws
\*   norows       : the sheet has no rows
\*   rows         : the sheet is read; matched is the rows matchesCard keeps
SheetConditions == {"unconfigured", "error", "norows", "rows"}

searchCardsInSheet(cond, matched, limit) ==
    IF cond = "rows"
    THEN [i \in 1..Len(TakeFirst(matched, limit)) |-> formatSheetCard(matched[i])]
    ELSE <<>>

\* The route's JSON answer for a request with a name.
SearchSheetRoute(cond, matched, limit) ==
    LET cards == searchCardsInSheet(cond, matched, limit) IN
    IF Len(cards) = 0
    THEN [success |-> TRUE, cards |-> <<>>, count |-> 0,
          source |-> "tcgdex-fallback", useTCGdex |-> TRUE]
    ELSE [success |-> TRUE, cards |-> cards, count |-> Len(cards),
          source |-> "google-sheet", useTCGdex |-> FALSE]

NoResponse == [success |-> FALSE, cards |-> <<>>, count |-> 0, source |-> "none", useTCGdex |-> FALSE]

(***************************************************************************)
(* sortCardsByRelevance (frontend/app.js)                                  *)
(***************************************************************************)

specialSuffixes ==
    {<<"g", "x">>, <<"e", "x">>, <<"v">>, <<"v", "m", "a", "x">>, <<"v", "s", "t", "a", "r">>,
     <<"v", "u", "n", "i", "o", "n">>, <<"b", "r", "e", "a", "k">>, <<"p", "r", "i", "m", "e">>}
HasSpecial(str) == \E suf \in specialSuffixes : Includes(str, suf)

\* The comparator: negative when a goes first.
CompareRelevance(a, b, searchLower) ==
    LET aName == ToLowerCase(a.name)
        bName == ToLowerCase(b.name)
    IN  IF aName = searchLower /\ bName # searchLower THEN 0 - 1
        ELSE IF bName = searchLower /\ aName # searchLower THEN 1
        ELSE IF HasSpecial(searchLower) /\ HasSpecial(aName) /\ ~HasSpecial(bName) THEN 0 - 1
        ELSE IF HasSpecial(searchLower) /\ HasSpecial(bName) /\ ~HasSpecial(aName) THEN 1
        ELSE IF StartsWith(aName, searchLower) /\ ~StartsWith(bName, searchLower) THEN 0 - 1
        ELSE IF StartsWith(bName, searchLower) /\ ~StartsWith(aName, searchLower) THEN 1
        ELSE IF StrLess(b.setId, a.setId) THEN 0 - 1
        ELSE IF StrLess(a.setId, b.setId) THEN 1
        ELSE LocaleCompare(aName, bName)

\* Array.prototype.sort is stable: c goes behind every element it does not
\* precede.
RECURSIVE InsertByRelevance(_, _, _)
InsertByRelevance(sorted, c, searchLower) ==
    IF sorted = <<>> THEN <<c>>
    ELSE IF CompareRelevance(c, sorted[Len(sorted)], searchLower) < 0
         THEN InsertByRelevance(SubSeq(sorted, 1, Len(sorted) - 1), c, searchLower)
                  \o <<sorted[Len(sorted)]>>
         ELSE Append(sorted, c)

RECURSIVE SortFrom(_, _, _)
SortFrom(sorted, rest, searchLower) ==
    IF rest = <<>> THEN sorted
    ELSE SortFrom(InsertByRelevance(sorted, Head(rest), searchLower), Tail(rest), searchLower)

sortCardsByRelevance(cards, searchName) == SortFrom(<<>>, cards, ToLowerCase(searchName))

(***************************************************************************)
(* handleUpload (frontend/app.js): the resolution chain                    *)
(***************************************************************************)

NoMsg == [type |-> "none", text |-> <<"none">>]
NoSheet == [cond |-> "notcalled", reply |-> "none", response |-> NoResponse]
NoTcg == [cond |-> "notcalled", list |-> <<>>]
NoPrev == [valid |-> FALSE, name |-> <<>>, sheet |-> "notcalled", tcg |-> "notcalled",
           response |-> NoResponse, msg |-> NoMsg]

RsInit ==
    /\ rsPc = "idle"
    /\ rsName = <<>>
    /\ rsCards = <<>>
    /\ rsSource = ""
    /\ rsMsg = NoMsg
    /\ rsRaised = FALSE
    /\ uploadBtnDisabled = FALSE
    /\ allFoundCards = <<>>
    /\ currentPage = 1
    /\ rsCalls = <<>>
    /\ rsInFlight = {}
    /\ rsSheet = NoSheet
    /\ rsTcg = NoTcg
    /\ rsPrev = NoPrev

\* catch (err) { showMessage(uploadMsgDiv, "X " + err.message, "error") }
\* finally { uploadBtn.disabled = false }
RsCatch(text) ==
    /\ rsMsg' = [type |-> "error", text |-> text]
    /\ rsRaised' = TRUE
    /\ uploadBtnDisabled' = FALSE
    /\ rsPc' = "done"

\* if (cards.length === 0) { source = 'TCGdex'; cards = await fetchCards... }
NeedFallbackAlways(cards) == TRUE

NeedFallbackNever(cards) == FALSE

NeedFallback(cards) == Len(cards) = 0

\* The click on uploadBtn without a file: an error message, nothing else.
RsUploadNoFile ==
    /\ rsPc = "idle"
    /\ rsMsg' = [type |-> "error", text |-> <<"Image file is required.">>]
    /\ UNCHANGED <<rsPc, rsName, rsCards, rsSource, rsRaised, uploadBtnDisabled,
                   allFoundCards, currentPage, rsCalls, rsInFlight, rsSheet, rsTcg, rsPrev>>
    /\ UNCHANGED <<fwVars, adVars, exVars>>

\* The click with a file: the button is disabled, the file is read and
\* identifyCardWithBackend is awaited.
RsUpload ==
    /\ rsPc = "idle"
    /\ rsPc' = "identify"
    /\ uploadBtnDisabled' = TRUE
    /\ rsMsg' = [type |-> "info", text |-> <<"Processing image with AI...">>]
    /\ rsName' = <<>>
    /\ rsCards' = <<>>
    /\ rsSource' = ""
    /\ rsRaised' = FALSE
    /\ rsCalls' = <<>>
    /\ rsSheet' = NoSheet
    /\ rsTcg' = NoTcg
    /\ UNCHANGED <<allFoundCards, currentPage, rsInFlight, rsPrev>>
    /\ UNCHANGED <<fwVars, adVars, exVars>>

\* identifyCardWithBackend throws, or answers a card without a name.
RsIdentifyFails ==
    /\ rsPc = "identify"
    /\ \E text \in {<<"AI identification failed: ">>, <<"AI failed to identify card.">>} :
          RsCatch(text)
    /\ UNCHANGED <<rsName, rsCards, rsSource, allFoundCards, currentPage,
                   rsCalls, rsInFlight, rsSheet, rsTcg, rsPrev>>
    /\ UNCHANGED <<fwVars, adVars, exVars>>

\* identifyCardWithBackend answers a named card (the manual name, or the
\* AI's): cards = [], source = '', and step 1 requests the search-sheet route.
RsIdentified ==
    /\ rsPc = "identify"
    /\ \E name \in QueryNames : rsName' = name
    /\ rsMsg' = [type |-> "info", text |-> <<"Searching for ", rsName'>>]
    /\ rsCards' = <<>>
    /\ rsSource' = ""
    /\ rsCalls' = Append(rsCalls, "sheet")
    /\ rsInFlight' = rsInFlight \cup {"sheet"}
    /\ rsPc' = "sheet"
    /\ UNCHANGED <<rsRaised, uploadBtnDisabled, allFoundCards, currentPage,
                   rsSheet, rsTcg, rsPrev>>
    /\ UNCHANGED <<fwVars, adVars, exVars>>

\* After step 1, with cards as step 1 left it: step 2 calls
\* fetchCardsFromTCGdex when cards is empty; otherwise cards is sorted,
\* stored in allFoundCards and displayCards is awaited.
RsAfterSheet(cards, source) ==
    IF NeedFallback(cards)
    THEN /\ rsSource' = "TCGdex"
         /\ rsCards' = cards
         /\ rsCalls' = Append(rsCalls, "tcgdex")
         /\ rsInFlight' = (rsInFlight \ {"sheet"}) \cup {"tcgdex"}
         /\ rsPc' = "tcgList"
         /\ UNCHANGED <<allFoundCards, currentPage, rsMsg, rsRaised, uploadBtnDisabled>>
    ELSE /\ rsSource' = source
         /\ rsCards' = sortCardsByRelevance(cards, rsName)
         /\ allFoundCards' = sortCardsByRelevance(cards, rsName)
         /\ currentPage' = 1
         /\ rsInFlight' = rsInFlight \ {"sheet"}
         /\ rsPc' = "display"
         /\ UNCHANGED <<rsCalls, rsMsg, rsRaised, uploadBtnDisabled>>

\* The search-sheet request is answered by the route.
RsSheetAnswered ==
    /\ rsPc = "sheet"
    /\ \E cond \in SheetConditions, keep \in SUBSET (1..MaxCards) :
        /\ cond # "rows" => keep = {}
        /\ LET resp == SearchSheetRoute(cond, Pick(SheetRows, keep, 1), REQUESTED_SHEET_LIMIT)
               took == resp.success /\ Len(resp.cards) > 0
           IN  /\ rsSheet' = [cond |-> (IF cond = "rows" /\ keep = {} THEN "nomatch" ELSE cond),
                              reply |-> "json", response |-> resp]
               /\ RsAfterSheet(IF took THEN resp.cards ELSE <<>>,
                               IF took THEN "Google Sheets" ELSE "")
    /\ UNCHANGED <<rsName, rsTcg, rsPrev>>
    /\ UNCHANGED <<fwVars, adVars, exVars>>

\* The search-sheet request fails (fetch rejects) or its body is no JSON:
\* the inner catch logs it and step 2 runs with cards = [].
RsSheetFailed ==
    /\ rsPc = "sheet"
    /\ \E reply \in {"network", "notjson"} :
          rsSheet' = [cond |-> "unreachable", reply |-> reply, response |-> NoResponse]
    /\ RsAfterSheet(<<>>, "")
    /\ UNCHANGED <<rsName, rsTcg, rsPrev>>
    /\ UNCHANGED <<fwVars, adVars, exVars>>

\* fetchCardsFromTCGdex: the /cards request fails, answers a non-OK status or
\* a body that is no JSON: the error is rethrown into handleUpload's catch.
RsTcgListFailed ==
    /\ rsPc = "tcgList"
    /\ \E text \in {<<"Failed to fetch">>, <<"TCGdex API error: ", 500>>,
                    <<"TCGdex API error: ", 404>>, <<"Unexpected token">>} :
          RsCatch(text)
    /\ rsTcg' = [cond |-> "error", list |-> <<>>]
    /\ rsInFlight' = rsInFlight \ {"tcgdex"}
    /\ UNCHANGED <<rsName, rsCards, rsSource, allFoundCards, currentPage,
                   rsCalls, rsSheet, rsPrev>>
    /\ UNCHANGED <<fwVars, adVars, exVars>>

\* The /cards list arrives and no card of it matches: fetchCardsFromTCGdex
\* returns [], and handleUpload throws "No matching cards found for ...".
RsTcgNoMatch ==
    /\ rsPc = "tcgList"
    /\ rsTcg' = [cond |-> "nomatch", list |-> <<>>]
    /\ rsInFlight' = rsInFlight \ {"tcgdex"}
    /\ rsCards' = <<>>
    /\ RsCatch(<<"No matching cards found for ", rsName>>)
    /\ UNCHANGED <<rsName, rsSource, allFoundCards, currentPage, rsCalls, rsSheet, rsPrev>>
    /\ UNCHANGED <<fwVars, adVars, exVars>>

\* The /cards list arrives and matchingCards is not empty: the detail
\* requests of its first cards are sent (still the TCGdex source).
RsTcgMatched ==
    /\ rsPc = "tcgList"
    /\ \E keep \in (SUBSET (1..MaxCards)) \ {{}} :
          rsTcg' = [cond |-> "cards", list |-> Pick(TcgCards, keep, 1)]
    /\ rsPc' = "tcgDetail"
    /\ UNCHANGED <<rsName, rsCards, rsSource, rsMsg, rsRaised, uploadBtnDisabled,
                   allFoundCards, currentPage, rsCalls, rsInFlight, rsSheet, rsPrev>>
    /\ UNCHANGED <<fwVars, adVars, exVars>>

\* Promise.all of the detail requests settles: a card whose request answered
\* OK is replaced by its detail, any other is kept as listed.  cards is not
\* empty, so it is sorted, stored and displayCards is awaited.
RsTcgDetailed ==
    /\ rsPc = "tcgDetail"
    /\ \E ok \in SUBSET (1..Len(rsTcg.list)) :
        LET valid == [i \in 1..Len(rsTcg.list) |->
                        IF i \in ok THEN TcgDetail(rsTcg.list[i]) ELSE rsTcg.list[i]]
        IN  /\ rsTcg' = [rsTcg EXCEPT !.list = valid]
            /\ rsCards' = sortCardsByRelevance(valid, rsName)
            /\ allFoundCards' = sortCardsByRelevance(valid, rsName)
    /\ currentPage' = 1
    /\ rsInFlight' = rsInFlight \ {"tcgdex"}
    /\ rsPc' = "display"
    /\ UNCHANGED <<rsName, rsSource, rsMsg, rsRaised, uploadBtnDisabled,
                   rsCalls, rsSheet, rsPrev>>
    /\ UNCHANGED <<fwVars, adVars, exVars>>

\* displayCards has rendered the page: the success message, and finally the
\* button is enabled again.
RsDisplayed ==
    /\ rsPc = "display"
    /\ rsMsg' = [type |-> "success", text |-> <<"Found ", Len(rsCards), " cards from ", rsSource>>]
    /\ uploadBtnDisabled' = FALSE
    /\ rsPc' = "done"
    /\ UNCHANGED <<rsName, rsCards, rsSource, rsRaised, allFoundCards, currentPage,
                   rsCalls, rsInFlight, rsSheet, rsTcg, rsPrev>>
    /\ UNCHANGED <<fwVars, adVars, exVars>>

\* handleUpload has returned; its locals are gone, the page state
\* (uploadMsg, allFoundCards, currentPage) stays.  The admin may upload again.
RsReturn ==
    /\ rsName' = <<>>
    /\ rsCards' = <<>>
    /\ rsSource' = ""
    /\ rsRaised' = FALSE
    /\ rsCalls' = <<>>
    /\ rsSheet' = NoSheet
    /\ rsTcg' = NoTcg
    /\ UNCHANGED <<rsMsg, uploadBtnDisabled, allFoundCards, currentPage, rsInFlight>>

RsAgain ==
    /\ rsPc = "done"
    /\ rsPc' = "idle"
    /\ RsReturn
    /\ UNCHANGED rsPrev
    /\ UNCHANGED <<fwVars, adVars, exVars>>

\* The outcome of a finished resolution as its caller sees it, next to what
\* the sources really did.
RunSummary ==
    [valid |-> TRUE, name |-> rsName, sheet |-> rsSheet.cond, tcg |-> rsTcg.cond,
     response |-> rsSheet.response, msg |-> rsMsg]

\* As RsAgain, and the outcome of the first resolution is remembered next to
\* the second.
RsAgainRemember ==
    /\ rsPc = "done"
    /\ ~rsPrev.valid
    /\ rsPc' = "idle"
    /\ RsReturn
    /\ rsPrev' = RunSummary
    /\ UNCHANGED <<fwVars, adVars, exVars>>

RsSteps ==
    \/ RsUploadNoFile \/ RsUpload \/ RsIdentifyFails \/ RsIdentified
    \/ RsSheetAnswered \/ RsSheetFailed
    \/ RsTcgListFailed \/ RsTcgNoMatch \/ RsTcgMatched \/ RsTcgDetailed
    \/ RsDisplayed

RsNext == RsSteps \/ RsAgain

RsNextTwice == RsSteps \/ RsAgainRemember

(***************************************************************************)
(* The catalog source adapters' search operations                          *)
(***************************************************************************)

\* String.prototype.trim
RECURSIVE TrimStart(_)
TrimStart(str) == IF str # <<>> /\ Head(str) = " " THEN TrimStart(Tail(str)) ELSE str
RECURSIVE TrimEnd(_)
TrimEnd(str) ==
    IF str # <<>> /\ str[Len(str)] = " " THEN TrimEnd(SubSeq(str, 1, Len(str) - 1)) ELSE str
Trim(str) == TrimEnd(TrimStart(str))

EndsWith(str, suf) ==
    Len(suf) <= Len(str) /\ SubSeq(str, Len(str) - Len(suf) + 1, Len(str)) = suf

\* name.replace(/ (GX|V|EX|MEGA|BREAK|Prism Star|Tag Team)$/i, '').trim()
NameSuffixes ==
    {<<"g", "x">>, <<"v">>, <<"e", "x">>, <<"m", "e", "g", "a">>, <<"b", "r", "e", "a", "k">>,
     <<"p", "r", "i", "s", "m", " ", "s", "t", "a", "r">>, <<"t", "a", "g", " ", "t", "e", "a", "m">>}
CleanName(name) ==
    LET hits == {suf \in NameSuffixes : EndsWith(ToLowerCase(name), <<" ">> \o suf)} IN
    IF hits = {} THEN Trim(name)
    ELSE LET suf == CHOOSE x \in hits : \A y \in hits : Len(y) <= Len(x)
         IN  Trim(SubSeq(name, 1, Len(name) - Len(suf) - 1))

\* cleaned.split(" ")[0]
RECURSIVE FirstWord(_)
FirstWord(str) ==
    IF str = <<>> \/ Head(str) = " " THEN <<>> ELSE <<Head(str)>> \o FirstWord(Tail(str))

\* The sets the /sets request of initPokemonTcgData may answer with.
SetLists == {<<>>, <<[name |-> "Base", id |-> "base1"]>>}
SetNames == {"undefined", "Base", "Jungle"}
\* SET_ID_MAP = {}; sets.forEach(s => { if (s.name) SET_ID_MAP[s.name] = s.id; })
\* (the map as its set of entries; a later set of the same name wins)
SetIdMapOf(sets) ==
    {sets[i] : i \in {k \in DOMAIN sets :
                        \A j \in DOMAIN sets : sets[j].name = sets[k].name => j <= k}}
\* SET_ID_MAP[aiSetName]
LookupSetId(map, setName) ==
    IF \E e \in map : e.name = setName
    THEN (CHOOSE e \in map : e.name = setName).id
    ELSE "undefined"

\* setId ? `name:"${cleaned}" set.id:"${setId}"` : `name:"${cleaned}*"`
TcgQuery(cleaned, setId) ==
    IF setId # "undefined"
    THEN [name |-> cleaned, wildcard |-> FALSE, setId |-> setId]
    ELSE [name |-> cleaned, wildcard |-> TRUE, setId |-> "none"]

\* The fallback condition without the test for a second word
FallbackWantedAnyName(setId, results, cleaned) ==
    /\ setId = "undefined"
    /\ Len(results) = 0

\* if (!setId && results.length === 0) { ... if (firstWord.length > 0 &&
\* cleaned.includes(" ")) ...
FallbackWanted(setId, results, cleaned) ==
    /\ setId = "undefined"
    /\ Len(results) = 0
    /\ Len(FirstWord(cleaned)) > 0
    /\ Includes(cleaned, <<" ">>)

\* A JavaScript number n is held as the integer 10000 * n, so that a price in
\* dollars, its hundredth and its hundredfold are all integers.
Cents(n) == n * 100

\* JustTCG: a catalog card with its sale variants; price is in dollars.
NoPrice == 0 - 1
JustVariantJP == [id |-> "v1", printing |-> "Holo", condition |-> "NM",
                  language |-> <<"J", "a", "p", "a", "n", "e", "s", "e">>,
                  price |-> Cents(500)]
JustVariantEN == [id |-> "v2", printing |-> "Normal", condition |-> "LP",
                  language |-> <<"E", "n", "g", "l", "i", "s", "h">>, price |-> NoPrice]
JustRawA == [id |-> "jA", name |-> "Pika", set_name |-> <<"B", "a", "s", "e">>,
             variants |-> <<JustVariantJP, JustVariantEN>>]
JustRawB == [id |-> "jB", name |-> "Pika V", set_name |-> <<"J", "u", "n", "g", "l", "e">>,
             variants |-> <<>>]
JustRawC == [id |-> "jC", name |-> "Pika ex", set_name |-> <<"B", "a", "s", "e">>,
             variants |-> <<JustVariantEN>>]
JustVariantHi == [id |-> "v3", printing |-> "Holo", condition |-> "NM",
                  language |-> <<"E", "n", "g", "l", "i", "s", "h">>, price |-> Cents(5000)]
JustRawD == [id |-> "jD", name |-> "Pika", set_name |-> <<"J", "u", "n", "g", "l", "e">>,
             variants |-> <<JustVariantHi>>]
JustRawLists == {<<>>, <<JustRawA>>, <<JustRawB>>, <<JustRawC>>, <<JustRawA, JustRawB>>,
                 <<JustRawD, JustRawA>>}

\* formatJustTCGCard(card, variant)
formatJustTCGVariant(card, variant) ==
    [id |-> variant.id, name |-> card.name, set_name |-> card.set_name,
     printing |-> variant.printing, condition |-> variant.condition,
     language |-> variant.language,
     price |-> (IF variant.price = NoPrice \/ variant.price = 0 THEN 0 ELSE variant.price),
     source |-> "justtcg"]

\* formatJustTCGCard that keeps the first variant only
formatJustTCGCardFirstVariant(card) ==
    IF Len(card.variants) > 0
    THEN <<formatJustTCGVariant(card, card.variants[1])>>
    ELSE <<[id |-> card.id, name |-> card.name, set_name |-> card.set_name,
            printing |-> "null", condition |-> "null", language |-> Null,
            price |-> 0, source |-> "justtcg"]>>

\* formatJustTCGCard(card): the list of its variants, or the card alone.
formatJustTCGCard(card) ==
    IF Len(card.variants) > 0
    THEN [i \in 1..Len(card.variants) |-> formatJustTCGVariant(card, card.variants[i])]
    ELSE <<[id |-> card.id, name |-> card.name, set_name |-> card.set_name,
            printing |-> "null", condition |-> "null", language |-> Null,
            price |-> 0, source |-> "justtcg"]>>

RECURSIVE FlattenJust(_)
FlattenJust(cards) ==
    IF cards = <<>> THEN <<>> ELSE formatJustTCGCard(Head(cards)) \o FlattenJust(Tail(cards))

RECURSIVE FilterLanguage(_, _)
FilterLanguage(list, lang) ==
    IF list = <<>> THEN <<>>
    ELSE (IF ~Falsy(Head(list).language) /\ ToLowerCase(Head(list).language) = ToLowerCase(lang)
          THEN <<Head(list)>> ELSE <<>>) \o FilterLanguage(Tail(list), lang)

\* formatJustTCGCards(cards, languageFilter)
formatJustTCGCards(cards, languageFilter) ==
    IF Falsy(languageFilter) THEN FlattenJust(cards)
    ELSE FilterLanguage(FlattenJust(cards), languageFilter)

Japanese == <<"J", "a", "p", "a", "n", "e", "s", "e">>

\* What searchJustTCGCards returns for the answer data of the API.
JustSearchList(data, language) ==
    formatJustTCGCards(data, IF language = "ja" THEN Japanese ELSE Null)
\* What searchJapaneseCards returns: the Japanese variants, or every variant
\* when there is no Japanese one.
JapaneseSearchList(data) ==
    IF Len(formatJustTCGCards(data, Japanese)) = 0
    THEN formatJustTCGCards(data, Null)
    ELSE formatJustTCGCards(data, Japanese)

Adapters == {"searchCardsInSheet", "pokemonTcg.searchCardsByName", "TCGdex.searchCardsByName",
             "searchJustTCGCards", "searchJapaneseCards"}
\* The names a caller may pass: "", "Pika", "Pika V", "Pi ka".
AdapterNames == {<<>>, <<"P", "i", "k", "a">>, <<"P", "i", "k", "a", " ", "V">>,
                 <<"P", "i", " ", "k", "a">>}
\* What a remote request can end in besides an answer.
RemoteFaults == {"fetch", "status", "parse"}
\* The card lists the two price APIs answer with.
ApiCardLists == {<<>>, <<"c1">>, <<"c1", "c2">>}

NoArgs == [name |-> <<>>, setName |-> "undefined", language |-> "en"]
NoAdResult == [kind |-> "none", list |-> <<>>]
NoAdPrev == [valid |-> FALSE]

AdInit ==
    /\ SET_ID_MAP = SetIdMapOf(<<>>)
    /\ adPc = "idle"
    /\ adAdapter = "none"
    /\ adArgs = NoArgs
    /\ adQueries = <<>>
    /\ adAnswers = <<>>
    /\ adFault = "none"
    /\ adResult = NoAdResult
    /\ adPrev = NoAdPrev

AdReturn(list) ==
    /\ adResult' = [kind |-> "returned", list |-> list]
    /\ adPc' = "done"

\* JustTCG's catch blocks: console.error(...); throw error;
AdJustCatch(fault) ==
    /\ adResult' = [kind |-> "thrown", list |-> <<>>]
    /\ adPc' = "done"

\* initPokemonTcgData: the /sets answer arrives and SET_ID_MAP is rebuilt.
AdInitSets ==
    /\ \E sets \in SetLists : SET_ID_MAP' = SetIdMapOf(sets)
    /\ UNCHANGED <<adPc, adAdapter, adArgs, adQueries, adAnswers, adFault, adResult, adPrev>>
    /\ UNCHANGED <<fwVars, rsVars, exVars>>

\* A caller starts a search.  Every adapter but the spreadsheet's returns []
\* for an empty name at once, or sends its first request.
AdCall ==
    /\ adPc = "idle"
    /\ \E a \in Adapters, name \in AdapterNames, setName \in SetNames, lang \in {"en", "ja"} :
        /\ a \in {"searchJustTCGCards", "searchJapaneseCards", "searchCardsInSheet"}
              => name # <<>>
        /\ a # "pokemonTcg.searchCardsByName" => setName = "undefined"
        /\ a # "searchJustTCGCards" => lang = "en"
        /\ adAdapter' = a
        /\ adArgs' = [name |-> name, setName |-> setName, language |-> lang]
        /\ adFault' = "none"
        /\ adAnswers' = <<>>
        /\ IF a \in {"pokemonTcg.searchCardsByName", "TCGdex.searchCardsByName"} /\ name = <<>>
           THEN AdReturn(<<>>) /\ adQueries' = <<>>
           ELSE /\ adPc' = "request"
                /\ adResult' = NoAdResult
                /\ adQueries' =
                     IF a = "pokemonTcg.searchCardsByName"
                     THEN <<TcgQuery(CleanName(name), LookupSetId(SET_ID_MAP, setName))>>
                     ELSE <<[name |-> name, wildcard |-> FALSE, setId |-> "none"]>>
    /\ UNCHANGED <<SET_ID_MAP, adPrev>>
    /\ UNCHANGED <<fwVars, rsVars, exVars>>

\* searchCardsInSheet: everything runs inside try; catch returns [].
AdSheetDone ==
    /\ adPc = "request"
    /\ adAdapter = "searchCardsInSheet"
    /\ \E cond \in SheetConditions, keep \in SUBSET (1..MaxCards) :
        /\ cond # "rows" => keep = {}
        /\ adFault' = IF cond = "error" THEN "fetch" ELSE "none"
        /\ adAnswers' = Append(adAnswers, [cond |-> cond, rows |-> keep])
        /\ AdReturn(searchCardsInSheet(cond, Pick(SheetRows, keep, 1), REQUESTED_SHEET_LIMIT))
    /\ UNCHANGED <<SET_ID_MAP, adPrev, adAdapter, adArgs, adQueries>>
    /\ UNCHANGED <<fwVars, rsVars, exVars>>

\* pokemonTcg.searchCardsByName: the first fetchWithRetry returns or throws
\* (caught: results stays []); then the looser query is sent or results is
\* returned.
AdTcgFirstDone ==
    /\ adPc = "request"
    /\ adAdapter = "pokemonTcg.searchCardsByName"
    /\ \E fault \in RemoteFaults \cup {"none"}, answer \in ApiCardLists :
        /\ fault # "none" => answer = <<>>
        /\ LET cleaned == CleanName(adArgs.name)
               setId == adQueries[1].setId
           IN  IF FallbackWanted(IF setId = "none" THEN "undefined" ELSE setId, answer, cleaned)
               THEN /\ adQueries' = Append(adQueries, TcgQuery(FirstWord(cleaned), "undefined"))
                    /\ adPc' = "fallback"
                    /\ adFault' = fault
                    /\ adResult' = adResult
               ELSE /\ AdReturn(answer)
                    /\ adFault' = fault
                    /\ adQueries' = adQueries
        /\ adAnswers' = Append(adAnswers, answer)
    /\ UNCHANGED <<SET_ID_MAP, adPrev, adAdapter, adArgs>>
    /\ UNCHANGED <<fwVars, rsVars, exVars>>

\* The looser query's fetchWithRetry returns or throws (caught).
AdTcgFallbackDone ==
    /\ adPc = "fallback"
    /\ \E fault \in RemoteFaults \cup {"none"}, answer \in ApiCardLists :
        /\ fault # "none" => answer = <<>>
        /\ adFault' = fault
        /\ adAnswers' = Append(adAnswers, answer)
        /\ AdReturn(answer)
    /\ UNCHANGED <<SET_ID_MAP, adPrev, adAdapter, adArgs, adQueries>>
    /\ UNCHANGED <<fwVars, rsVars, exVars>>

\* TCGdex.searchCardsByName: try { return resp.data || [] } catch { return [] }
AdDexDone ==
    /\ adPc = "request"
    /\ adAdapter = "TCGdex.searchCardsByName"
    /\ \E fault \in RemoteFaults \cup {"none"}, answer \in ApiCardLists :
        /\ fault # "none" => answer = <<>>
        /\ adFault' = fault
        /\ adAnswers' = Append(adAnswers, answer)
        /\ AdReturn(answer)
    /\ UNCHANGED <<SET_ID_MAP, adPrev, adAdapter, adArgs, adQueries>>
    /\ UNCHANGED <<fwVars, rsVars, exVars>>

\* searchJustTCGCards: fetch rejects, the status is not OK or the body is no
\* JSON: the catch block rethrows.  Otherwise the variants are flattened,
\* filtered for Japanese when language is 'ja'.
AdJustDone ==
    /\ adPc = "request"
    /\ adAdapter = "searchJustTCGCards"
    /\ \E fault \in RemoteFaults \cup {"none"}, data \in JustRawLists :
        /\ fault # "none" => data = <<>>
        /\ adFault' = fault
        /\ IF fault # "none"
           THEN AdJustCatch(fault)
           ELSE AdReturn(JustSearchList(data, adArgs.language))
        /\ adAnswers' = Append(adAnswers, [fault |-> fault, data |-> data])
    /\ UNCHANGED <<SET_ID_MAP, adPrev, adAdapter, adArgs, adQueries>>
    /\ UNCHANGED <<fwVars, rsVars, exVars>>

\* searchJapaneseCards: as above; the Japanese variants, or every variant
\* when there is no Japanese one.
AdJapaneseDone ==
    /\ adPc = "request"
    /\ adAdapter = "searchJapaneseCards"
    /\ \E fault \in RemoteFaults \cup {"none"}, data \in JustRawLists :
        /\ fault # "none" => data = <<>>
        /\ adFault' = fault
        /\ IF fault # "none"
           THEN AdJustCatch(fault)
           ELSE AdReturn(JapaneseSearchList(data))
        /\ adAnswers' = Append(adAnswers, [fault |-> fault, data |-> data])
    /\ UNCHANGED <<SET_ID_MAP, adPrev, adAdapter, adArgs, adQueries>>
    /\ UNCHANGED <<fwVars, rsVars, exVars>>

\* The caller has taken the result.
AdAgain ==
    /\ adPc = "done"
    /\ adPc' = "idle"
    /\ adAdapter' = "none"
    /\ adArgs' = NoArgs
    /\ adQueries' = <<>>
    /\ adAnswers' = <<>>
    /\ adFault' = "none"
    /\ adResult' = NoAdResult
    /\ UNCHANGED <<SET_ID_MAP, adPrev>>
    /\ UNCHANGED <<fwVars, rsVars, exVars>>

\* As AdAgain, and the finished search is remembered next to the one that
\* follows.
AdAgainRemember ==
    /\ adPc = "done"
    /\ ~adPrev.valid
    /\ adPrev' = [valid |-> TRUE, adapter |-> adAdapter, args |-> adArgs,
                  queries |-> adQueries, answers |-> adAnswers, result |-> adResult]
    /\ adPc' = "idle"
    /\ adAdapter' = "none"
    /\ adArgs' = NoArgs
    /\ adQueries' = <<>>
    /\ adAnswers' = <<>>
    /\ adFault' = "none"
    /\ adResult' = NoAdResult
    /\ UNCHANGED SET_ID_MAP
    /\ UNCHANGED <<fwVars, rsVars, exVars>>

AdSteps ==
    \/ AdInitSets \/ AdCall \/ AdSheetDone \/ AdTcgFirstDone \/ AdTcgFallbackDone
    \/ AdDexDone \/ AdJustDone \/ AdJapaneseDone

AdNext == AdSteps \/ AdAgain

AdNextTwice == AdSteps \/ AdAgainRemember

(***************************************************************************)
(* Matching a name against the sheet's rows: createNameVariations,         *)
(* extractKeyTerms, matchesCard (backend/services/google-sheets-service.js)*)
(***************************************************************************)

\* The character U+FF06, the full-width ampersand.
FullwidthAmp == "U+FF06"

\* str.replace(/pat/g, by) for a pattern that is a fixed text
RECURSIVE ReplaceAll(_, _, _)
ReplaceAll(str, pat, by) ==
    IF Len(str) < Len(pat) THEN str
    ELSE IF SubSeq(str, 1, Len(pat)) = pat
         THEN by \o ReplaceAll(SubSeq(str, Len(pat) + 1, Len(str)), pat, by)
         ELSE <<Head(str)>> \o ReplaceAll(Tail(str), pat, by)

\* name.normalize('NFKC') maps the full-width ampersand to '&'; normalize('NFD')
\* leaves the characters of the model as they are.
NormalizeNFKC(str) == [i \in 1..Len(str) |-> IF str[i] = FullwidthAmp THEN "&" ELSE str[i]]

\* \w: letters, digits and '_'
NonWordChars == {" ", "&", "'", "-", ",", ";", FullwidthAmp}
IsWordChar(c) == c \notin NonWordChars
\* The longest run of characters outside seps at the start of str.
RECURSIVE RunOutside(_, _)
RunOutside(str, seps) ==
    IF str = <<>> \/ Head(str) \in seps THEN <<>>
    ELSE <<Head(str)>> \o RunOutside(Tail(str), seps)

\* .replace(/\b(the|a|an|of|and)\b/gi, ' ')
CommonWords ==
    {<<"t", "h", "e">>, <<"a">>, <<"a", "n">>, <<"o", "f">>, <<"a", "n", "d">>}
RECURSIVE BlankCommonWords(_)
BlankCommonWords(str) ==
    IF str = <<>> THEN <<>>
    ELSE IF IsWordChar(Head(str))
         THEN LET w == RunOutside(str, NonWordChars)
              IN  (IF ToLowerCase(w) \in CommonWords THEN <<" ">> ELSE w)
                      \o BlankCommonWords(SubSeq(str, Len(w) + 1, Len(str)))
         ELSE <<Head(str)>> \o BlankCommonWords(Tail(str))

\* createNameVariations(name): the Set of variations, the empty ones dropped.
createNameVariations(name) ==
    {v \in {name,
            ReplaceAll(name, <<"&">>, <<FullwidthAmp>>),
            ReplaceAll(name, <<"&">>, <<"a", "n", "d">>),
            ReplaceAll(name, <<"&">>, <<" ">>),
            ReplaceAll(ReplaceAll(name, <<"&">>, <<>>), <<FullwidthAmp>>, <<>>),
            ReplaceSpaceRuns(name, <<>>),
            ReplaceAll(name, <<"'", "s", " ">>, <<" ">>),
            ReplaceAll(name, <<"'", "s">>, <<>>),
            ReplaceAll(name, <<"'">>, <<>>),
            ReplaceAll(name, <<"-">>, <<" ">>),
            ReplaceAll(name, <<"-">>, <<>>),
            ReplaceSpaceRuns(name, <<"-">>),
            NormalizeNFKC(name),
            Trim(ReplaceSpaceRuns(BlankCommonWords(name), <<" ">>))} : Len(v) > 0}

\* variations.add(v) of a Set held in insertion order
SetAdd(list, v) == IF \E i \in DOMAIN list : list[i] = v THEN list ELSE Append(list, v)

RECURSIVE AddAll(_, _)
AddAll(list, values) ==
    IF values = <<>> THEN list ELSE AddAll(SetAdd(list, Head(values)), Tail(values))

\* The variations without the two replacements of 's
NameVariationsNoPossessive(name) ==
    AddAll(<<>>,
           <<name,
             ReplaceAll(name, <<"&">>, <<FullwidthAmp>>),
             ReplaceAll(name, <<"&">>, <<"a", "n", "d">>),
             ReplaceAll(name, <<"&">>, <<" ">>),
             ReplaceAll(ReplaceAll(name, <<"&">>, <<>>), <<FullwidthAmp>>, <<>>),
             ReplaceSpaceRuns(name, <<>>),
             ReplaceAll(name, <<"'">>, <<>>),
             ReplaceAll(name, <<"-">>, <<" ">>),
             ReplaceAll(name, <<"-">>, <<>>),
             ReplaceSpaceRuns(name, <<"-">>),
             NormalizeNFKC(name),
             name,
             Trim(ReplaceSpaceRuns(BlankCommonWords(name), <<" ">>))>>)

\* Array.from(variations).filter(v => v.length > 0) without the filter
NameVariationsKeepEmpty(name) ==
    AddAll(<<>>,
           <<name,
             ReplaceAll(name, <<"&">>, <<FullwidthAmp>>),
             ReplaceAll(name, <<"&">>, <<"a", "n", "d">>),
             ReplaceAll(name, <<"&">>, <<" ">>),
             ReplaceAll(ReplaceAll(name, <<"&">>, <<>>), <<FullwidthAmp>>, <<>>),
             ReplaceSpaceRuns(name, <<>>),
             ReplaceAll(name, <<"'", "s", " ">>, <<" ">>),
             ReplaceAll(name, <<"'", "s">>, <<>>),
             ReplaceAll(name, <<"'">>, <<>>),
             ReplaceAll(name, <<"-">>, <<" ">>),
             ReplaceAll(name, <<"-">>, <<>>),
             ReplaceSpaceRuns(name, <<"-">>),
             NormalizeNFKC(name),
             name,
             Trim(ReplaceSpaceRuns(BlankCommonWords(name), <<" ">>))>>)

\* createNameVariations(name) as the Array it returns: the variations in the
\* order the Set received them, the empty ones filtered out.
NameVariationsArray(name) ==
    LET all == NameVariationsKeepEmpty(name)
    IN  Pick(all, {i \in DOMAIN all : Len(all[i]) > 0}, 1)

\* variation.split(/[\s-_']+/): the pieces that are not empty
RECURSIVE SplitOn(_, _)
SplitOn(str, seps) ==
    IF str = <<>> THEN {}
    ELSE IF Head(str) \in seps THEN SplitOn(Tail(str), seps)
    ELSE {RunOutside(str, seps)}
             \cup SplitOn(SubSeq(str, Len(RunOutside(str, seps)) + 1, Len(str)), seps)

stopWords ==
    {<<"t", "h", "e">>, <<"a">>, <<"a", "n">>, <<"a", "n", "d">>, <<"o", "r">>,
     <<"b", "u", "t">>, <<"i", "n">>, <<"o", "n">>, <<"a", "t">>, <<"t", "o">>,
     <<"f", "o", "r">>, <<"o", "f">>, <<"w", "i", "t", "h">>, <<"b", "y">>,
     <<"f", "r", "o", "m">>, <<"a", "s">>, <<"i", "s">>, <<"w", "a", "s">>, <<"a", "r", "e">>,
     <<"w", "e", "r", "e">>, <<"b", "e", "e", "n">>, <<"b", "e">>, <<"h", "a", "v", "e">>,
     <<"h", "a", "s">>, <<"h", "a", "d">>, <<"d", "o">>, <<"d", "o", "e", "s">>,
     <<"d", "i", "d">>, <<"w", "i", "l", "l">>, <<"w", "o", "u", "l", "d">>,
     <<"s", "h", "o", "u", "l", "d">>, <<"c", "a", "n">>, <<"c", "o", "u", "l", "d">>,
     <<"m", "a", "y">>, <<"m", "i", "g", "h", "t">>, <<"m", "u", "s", "t">>,
     <<"s", "h", "a", "l", "l">>,
     <<"d", "e", "t", "e", "r", "m", "i", "n", "a", "t", "i", "o", "n">>,
     <<"r", "e", "s", "o", "l", "v", "e">>, <<"o", "r", "d", "e", "r", "s">>,
     <<"c", "o", "m", "m", "a", "n", "d">>, <<"f", "u", "l", "l">>,
     <<"f", "o", "r", "c", "e">>, <<"s", "u", "p", "p", "o", "r", "t", "e", "r">>,
     <<"t", "r", "a", "i", "n", "e", "r">>, <<"i", "t", "e", "m">>,
     <<"s", "t", "a", "d", "i", "u", "m">>, <<"e", "n", "e", "r", "g", "y">>, <<"g", "x">>,
     <<"e", "x">>, <<"v">>, <<"v", "m", "a", "x">>, <<"v", "s", "t", "a", "r">>}

\* extractKeyTerms(variations)
extractKeyTerms(variations) ==
    UNION {{w \in SplitOn(v, {" ", "-", "_", "'"}) : Len(w) >= 3 /\ w \notin stopWords}
               \cup (IF Len(v) >= 3 THEN {v} ELSE {}) : v \in variations}

\* Either contains the other.
Overlaps(a, b) == Includes(a, b) \/ Includes(b, a)

\* matchesCard without the keywords / aliases column
matchesCardNameOnly(card, nameVariations) ==
    \E term \in extractKeyTerms(nameVariations) :
        Overlaps(Trim(ToLowerCase(OrElse(card.name, OrElse(card.card_name, <<>>)))), term)

\* matchesCard(card, nameVariations)
matchesCard(card, nameVariations) ==
    LET cardNameInSheet == Trim(ToLowerCase(OrElse(card.name, OrElse(card.card_name, <<>>))))
        keywordsStr == Trim(ToLowerCase(OrElse(card.keywords, OrElse(card.aliases, <<>>))))
        keywordsList == {Trim(k) : k \in SplitOn(keywordsStr, {",", ";"})} \ {<<>>}
        searchTerms == extractKeyTerms(nameVariations)
    IN  \/ \E term \in searchTerms :
              Includes(cardNameInSheet, term) \/ Includes(term, cardNameInSheet)
        \/ \E keyword \in keywordsList : \E term \in searchTerms :
              Includes(keyword, term) \/ Includes(term, keyword)

\* searchCardsInSheet: cards.filter(card => matchesCard(card, nameVariations))
SheetMatches(rows, cardName) ==
    LET nameVariations == createNameVariations(Trim(ToLowerCase(cardName)))
    IN  Pick(rows, {i \in DOMAIN rows : matchesCard(rows[i], nameVariations)}, 1)

(***************************************************************************)
(* extractMarketPrice (backend/services/pokemonTcg.js, frontend/app.js)    *)
(***************************************************************************)

\* The price paths of a card payload; NoPrice where the path is absent or
\* null.  Backend names / frontend names:
\*   avg           cardmarket.prices.averageSellPrice / pricing.cardmarket.avg
\*   trend, low    - / pricing.cardmarket.trend, .low
\*   holofoil      tcgplayer.prices.holofoil.market / pricing.tcgplayer.holofoil.marketPrice
\*   normal, reverseHolofoil   likewise
\*   firstEdition  tcgplayer.prices['1stEditionHolofoil'].market / pricing.tcgplayer['1stEdition'].marketPrice
\*   unlimitedHolofoil   - / pricing.tcgplayer.unlimitedHolofoil.marketPrice
PricePayloads ==
    [avg : {NoPrice, 0, Cents(100)}, trend : {NoPrice, Cents(600)}, low : {NoPrice},
     holofoil : {NoPrice, 0, Cents(200)}, normal : {NoPrice, Cents(300), 12340},
     reverseHolofoil : {NoPrice, Cents(400)}, firstEdition : {NoPrice, Cents(500)},
     unlimitedHolofoil : {NoPrice}]
NoPayload ==
    [avg |-> NoPrice, trend |-> NoPrice, low |-> NoPrice, holofoil |-> NoPrice,
     normal |-> NoPrice, reverseHolofoil |-> NoPrice, firstEdition |-> NoPrice,
     unlimitedHolofoil |-> NoPrice]

\* if (x): neither absent nor 0
TruthyNumber(x) == x # NoPrice /\ x # 0

\* The first value of the list that if (...) accepts, or null.
RECURSIVE FirstTruthy(_)
FirstTruthy(values) ==
    IF values = <<>> THEN NoPrice
    ELSE IF TruthyNumber(Head(values)) THEN Head(values)
    ELSE FirstTruthy(Tail(values))

\* pokemonTcg.js extractMarketPrice(card)
BackendPricePaths(card) ==
    <<card.avg, card.holofoil, card.normal, card.reverseHolofoil, card.firstEdition>>
extractMarketPriceBackend(card) == FirstTruthy(BackendPricePaths(card))

\* Number.prototype.toFixed(2), read back as a number: the nearest cent.
ToFixed2(x) == ((x + 50) \div 100) * 100

\* app.js extractMarketPrice(card): the text of the price, or null.
FrontendPricePaths(card) ==
    <<card.holofoil, card.reverseHolofoil, card.normal, card.firstEdition,
      card.unlimitedHolofoil, card.avg, card.trend, card.low>>
extractMarketPrice(card) ==
    IF FirstTruthy(FrontendPricePaths(card)) = NoPrice THEN NoPrice
    ELSE ToFixed2(FirstTruthy(FrontendPricePaths(card)))

(***************************************************************************)
(* The backend routes (routes/justtcg-routes.js, server.js, routes/cards.js)*)
(* Each handler is one step: request in, catalog queries out, answer.      *)
(***************************************************************************)

JUSTTCG_LIMIT == 20

Pika == <<"P", "i", "k", "a">>
PikaV == <<"P", "i", "k", "a", " ", "V">>
Pokemon == <<"P", "o", "k", "e", "m", "o", "n">>
Base == <<"B", "a", "s", "e">>

\* The name fields of a request: absent, empty, or a name.
RtNames == {Null, <<>>, Pika}

\* A limit parameter of a query string: absent, not a number, or a number.
NoLimit == [kind |-> "absent", n |-> 0]
LimitParams ==
    {NoLimit, [kind |-> "text", n |-> 0]}
        \cup {[kind |-> "number", n |-> k] : k \in {0 - 1, 0, 1, 2, 1000}}
\* parseInt(limit) || dflt
ParseIntOr(limit, dflt) == IF limit.kind # "number" \/ limit.n = 0 THEN dflt ELSE limit.n

\* What Gemini's answer text parses to in POST /identify-card.
\*   throws  : generateContent rejects
\*   nojson  : the text holds no {...}: aiData = {}
\*   badjson : JSON.parse throws: aiData = { cardName: cardName || 'Unknown' }
\*   json    : the parsed fields
NoAiData == [cardName |-> Null, cardNameJapanese |-> Null, setName |-> Null, language |-> "undefined"]
AiJson ==
    [cardName : {Null, PikaV}, cardNameJapanese : {Null}, setName : {Null, Base},
     language : {"japanese", "english"}]
AiAnswers ==
    [kind : {"throws", "nojson", "badjson"}, data : {NoAiData}]
        \cup [kind : {"json"}, data : AiJson]
AiDataOf(ai, cardName) ==
    IF ai.kind = "badjson" THEN [NoAiData EXCEPT !.cardName = OrElse(cardName, Unknown)]
    ELSE ai.data

\* cardName || aiData.cardName || aiData.cardNameJapanese || 'Pokemon'
SearchQueryOf(cardName, aiData) ==
    OrElse(cardName, OrElse(aiData.cardName, OrElse(aiData.cardNameJapanese, Pokemon)))

\* The comparator of POST /identify-card: set match first, then price down.
SetMatch(card, setName) ==
    ~Falsy(card.set_name) /\ Includes(ToLowerCase(card.set_name), ToLowerCase(setName))
CompareRank(a, b, setName) ==
    IF SetMatch(a, setName) /\ ~SetMatch(b, setName) THEN 0 - 1
    ELSE IF ~SetMatch(a, setName) /\ SetMatch(b, setName) THEN 1
    ELSE b.price - a.price

RECURSIVE InsertByRank(_, _, _)
InsertByRank(sorted, c, setName) ==
    IF sorted = <<>> THEN <<c>>
    ELSE IF CompareRank(c, sorted[Len(sorted)], setName) < 0
         THEN InsertByRank(SubSeq(sorted, 1, Len(sorted) - 1), c, setName)
                  \o <<sorted[Len(sorted)]>>
         ELSE Append(sorted, c)
RECURSIVE RankFrom(_, _, _)
RankFrom(sorted, rest, setName) ==
    IF rest = <<>> THEN sorted
    ELSE RankFrom(InsertByRank(sorted, Head(rest), setName), Tail(rest), setName)
\* rankedCards: cards.sort(...) when aiData.setName is set, else cards.
RankCards(cards, setName) ==
    IF Falsy(setName) THEN cards ELSE RankFrom(<<>>, cards, setName)

\* ai: what the identification itself supplied (nothing unless it was JSON).
\* token: the Authorization header; stored: upload.single wrote the file to
\* backend/uploads; onDisk: that file is still there when the handler is done.
NoReq == [route |-> "none", file |-> FALSE, name |-> Null, language |-> "undefined",
          limit |-> NoLimit, aiKind |-> "none", ai |-> NoAiData, token |-> "none",
          stored |-> FALSE, onDisk |-> FALSE]
NoResp == [status |-> 0, source |-> "none", cards |-> <<>>, count |-> 0]
ErrorResp(status) == [status |-> status, source |-> "none", cards |-> <<>>, count |-> 0]

RtInit ==
    /\ rtReq = NoReq
    /\ rtQueries = <<>>
    /\ rtResp = NoResp
    /\ dbCards = <<>>
    /\ uploadsDir = 0

\* POST /api/justtcg/identify-card
RtIdentifyCard ==
    /\ rtReq.route = "none"
    /\ \E file \in BOOLEAN, cardName \in RtNames, language \in {"undefined", "ja", "en"},
       ai \in AiAnswers, fault \in RemoteFaults \cup {"none"}, data \in JustRawLists :
        /\ fault # "none" => data = <<>>
        /\ LET aiData == AiDataOf(ai, cardName)
               searchQuery == SearchQueryOf(cardName, aiData)
               japanese == language = "ja" \/ aiData.language = "japanese"
               cards == IF japanese THEN JapaneseSearchList(data)
                        ELSE JustSearchList(data, IF language = "undefined" THEN "en" ELSE language)
               rankedCards == RankCards(cards, aiData.setName)
           IN  /\ rtReq' = [NoReq EXCEPT !.route = "identify-card", !.file = file,
                                         !.name = cardName, !.language = language,
                                         !.aiKind = IF file THEN ai.kind ELSE "none",
                                         !.ai = IF file THEN ai.data ELSE NoAiData]
               /\ IF ~file
                  THEN rtQueries' = <<>> /\ rtResp' = ErrorResp(400)
                  ELSE IF ai.kind = "throws"
                  THEN rtQueries' = <<>> /\ rtResp' = ErrorResp(500)
                  ELSE /\ rtQueries' = <<[source |-> "justtcg", q |-> searchQuery,
                                          limit |-> JUSTTCG_LIMIT]>>
                       /\ rtResp' = IF fault # "none" THEN ErrorResp(500)
                                    ELSE [status |-> 200, source |-> "justtcg",
                                          cards |-> TakeFirst(rankedCards, JUSTTCG_LIMIT),
                                          count |-> Len(rankedCards)]
        /\ UNCHANGED <<dbCards, uploadsDir>>
        /\ UNCHANGED <<fwVars, rsVars, adVars, ivVars, pfVars, pgVars>>

\* GET /api/justtcg/search-cards.  The API answers with at most `limit` cards
\* when limit is positive.
RtSearchCards ==
    /\ rtReq.route = "none"
    /\ \E query \in RtNames, language \in {"undefined", "ja", "en"}, limit \in LimitParams,
       fault \in RemoteFaults \cup {"none"}, data \in JustRawLists :
        /\ fault # "none" => data = <<>>
        /\ LET sent == Min(ParseIntOr(limit, JUSTTCG_LIMIT), JUSTTCG_LIMIT)
               cards == JustSearchList(data, IF language = "undefined" THEN "en" ELSE language)
           IN  /\ sent > 0 => Len(data) <= sent
               /\ rtReq' = [NoReq EXCEPT !.route = "search-cards", !.name = query,
                                         !.language = language, !.limit = limit]
               /\ IF Falsy(query)
                  THEN rtQueries' = <<>> /\ rtResp' = ErrorResp(400)
                  ELSE /\ rtQueries' = <<[source |-> "justtcg", q |-> query, limit |-> sent]>>
                       /\ rtResp' = IF fault # "none" THEN ErrorResp(500)
                                    ELSE [status |-> 200, source |-> "justtcg",
                                          cards |-> cards, count |-> Len(cards)]
        /\ UNCHANGED <<dbCards, uploadsDir>>
        /\ UNCHANGED <<fwVars, rsVars, adVars, ivVars, pfVars, pgVars>>

\* GET /api/cards/search-sheet
RtSearchSheet ==
    /\ rtReq.route = "none"
    /\ \E name \in RtNames, limit \in LimitParams, cond \in SheetConditions,
       keep \in SUBSET (1..MaxCards) :
        /\ cond # "rows" => keep = {}
        /\ LET asked == ParseIntOr(limit, REQUESTED_SHEET_LIMIT)
               answer == SearchSheetRoute(cond, Pick(SheetRows, keep, 1), asked)
           IN  /\ rtReq' = [NoReq EXCEPT !.route = "search-sheet", !.name = name,
                                         !.limit = limit]
               /\ IF Falsy(name)
                  THEN rtQueries' = <<>> /\ rtResp' = ErrorResp(400)
                  ELSE /\ rtQueries' = <<[source |-> "google-sheet", q |-> name, limit |-> asked]>>
                       /\ rtResp' = [status |-> 200, source |-> answer.source,
                                     cards |-> answer.cards, count |-> answer.count]
        /\ UNCHANGED <<dbCards, uploadsDir>>
        /\ UNCHANGED <<fwVars, rsVars, adVars, ivVars, pfVars, pgVars>>

\* The most rows the table 'cards' is let grow to.
MaxDbRows == 1

\* What identifyCardWithGemini hands back (or it throws).
CardInfos == [cardName : {Null, PikaV}, setName : {Null, Base}]
\* What searchCardsByName(cardInfo.name) finds: nothing, or one card of a set.
PriceSearchResults ==
    {<<>>} \cup {<<[setName |-> st, prices |-> [NoPayload EXCEPT !.avg = a]]>> :
                    st \in {Base, <<"J", "u", "n", "g", "l", "e">>},
                    a \in {NoPrice, Cents(100)}}
\* results.find(c => c.set?.name === cardInfo.set || c.set === cardInfo.set),
\* then match ? extractMarketPrice(match) : null
LookupMarketPrice(results, setName) ==
    IF \E i \in DOMAIN results : results[i].setName = setName
    THEN extractMarketPriceBackend(
             results[CHOOSE i \in DOMAIN results :
                        /\ results[i].setName = setName
                        /\ \A j \in DOMAIN results : results[j].setName = setName => i <= j].prices)
    ELSE NoPrice

\* The Authorization header of a request: none (or not a Bearer one), a
\* token jwt.verify rejects, a verified token of another role, an admin's.
Tokens == {"none", "invalid", "user", "admin"}
\* middleware/auth.js requireAdmin: the status it answers, 0 when it calls next().
requireAdmin(token) ==
    IF token = "none" THEN 401
    ELSE IF token = "invalid" THEN 401
    ELSE IF token # "admin" THEN 403
    ELSE 0

MaxLeftFiles == 2

\* A request requireAdmin answered itself: nothing after it runs.
RtRejected(route, token, file) ==
    /\ rtReq' = [NoReq EXCEPT !.route = route, !.token = token, !.file = file]
    /\ rtQueries' = <<>>
    /\ rtResp' = ErrorResp(requireAdmin(token))
    /\ UNCHANGED <<dbCards, uploadsDir>>

\* POST /api/cards/identify (routes/cards.js): requireAdmin, upload.single,
\* then manual entry (mode 1) or AI identification (mode 2), the market price
\* lookup, the insert into 'cards', and the finally block that unlinks
\* uploadedFilePath.
RtCardsIdentify ==
    /\ rtReq.route = "none"
    /\ Len(dbCards) < MaxDbRows
    /\ uploadsDir < MaxLeftFiles
    /\ \E mode \in {"1", "2", "3"}, name \in RtNames, setName \in {Null, Base}, file \in BOOLEAN,
          marketprice \in {NoPrice, Cents(500)}, aiThrows \in BOOLEAN, info \in CardInfos,
          results \in PriceSearchResults, insertFails \in BOOLEAN, token \in Tokens :
      IF requireAdmin(token) # 0
      THEN RtRejected("cards-identify-" \o mode, token, file)
      ELSE
        LET manualOk == mode = "1" /\ ~Falsy(name) /\ ~Falsy(setName)
            aiRuns == mode = "2" /\ file
            \* uploadedFilePath = req.file.path, in the mode 2 branch only; the
            \* finally block unlinks uploadedFilePath and nothing else
            uploadedFilePath == aiRuns
            onDisk == file /\ ~uploadedFilePath
            aiOk == aiRuns /\ ~aiThrows /\ ~Falsy(info.cardName) /\ ~Falsy(info.setName)
            cardInfo == IF mode = "1" THEN [cardName |-> name, setName |-> setName] ELSE info
            lookup == (manualOk \/ aiOk) /\ ~TruthyNumber(marketprice)
            marketPrice == IF lookup THEN LookupMarketPrice(results, cardInfo.setName)
                           ELSE marketprice
            finalData == [name |-> cardInfo.cardName, set |-> cardInfo.setName,
                          marketprice |-> marketPrice,
                          source |-> IF mode = "2" THEN "gemini" ELSE "manual"]
        IN  /\ rtReq' = [NoReq EXCEPT !.route = "cards-identify-" \o mode, !.file = file,
                                      !.name = name, !.token = token,
                                      !.stored = file, !.onDisk = onDisk,
                                      !.aiKind = IF ~aiRuns THEN "none"
                                                 ELSE IF aiThrows THEN "throws" ELSE "json",
                                      !.ai = IF aiRuns /\ ~aiThrows
                                             THEN [NoAiData EXCEPT !.cardName = info.cardName,
                                                                   !.setName = info.setName]
                                             ELSE NoAiData]
            /\ rtQueries' = IF lookup
                            THEN <<[source |-> "pokemontcg", q |-> cardInfo.cardName, limit |-> 10]>>
                            ELSE <<>>
            /\ IF manualOk \/ aiOk
               THEN IF insertFails
                    THEN rtResp' = ErrorResp(500) /\ dbCards' = dbCards
                    ELSE /\ rtResp' = [status |-> 200, source |-> finalData.source,
                                       cards |-> <<>>, count |-> 0]
                         /\ dbCards' = Append(dbCards, finalData)
               ELSE /\ rtResp' = ErrorResp(IF aiRuns THEN 500 ELSE 400)
                    /\ dbCards' = dbCards
            /\ uploadsDir' = IF onDisk THEN uploadsDir + 1 ELSE uploadsDir
    /\ UNCHANGED <<fwVars, rsVars, adVars, ivVars, pfVars, pgVars>>

\* The answer is sent; the server waits for the next request.
RtAnswered ==
    /\ rtReq.route # "none"
    /\ rtReq' = NoReq
    /\ rtQueries' = <<>>
    /\ rtResp' = NoResp
    /\ UNCHANGED <<dbCards, uploadsDir>>
    /\ UNCHANGED <<fwVars, rsVars, adVars, ivVars, pfVars, pgVars>>

(***************************************************************************)
(* Adding the selected candidate to the inventory: addCardToInventory      *)
(* (frontend/app.js), selectCard (frontend/justtcg-app.js),                *)
(* POST /api/add-to-inventory (server.js), addCard (supabase-inventory.js) *)
(***************************************************************************)

\* The candidates a page lists.  prices: the price paths of an app.js card;
\* price: the price field of a JustTCG card; reported: the market price in
\* dollars as the source gave it (NoPrice: it gave none).
\* formatSheetCard: pricing.tcgplayer.normal.marketPrice = parseFloat(price || 0)
SheetCandidate(price) ==
    [origin |-> "sheet", source |-> "google-sheet", name |-> Pika,
     prices |-> [NoPayload EXCEPT !.normal = IF price = NoPrice THEN 0 ELSE price],
     price |-> NoPrice, reported |-> price]
\* fetchCardsFromTCGdex: the /cards/{id} answer as it is (no source field).
TcgdexCandidate(prices) ==
    [origin |-> "tcgdex", source |-> "undefined", name |-> Pika, prices |-> prices,
     price |-> NoPrice, reported |-> FirstTruthy(FrontendPricePaths(prices))]
\* formatJustTCGCard(card, variant), and the card without variants.
JustCandidate(card, i) ==
    [origin |-> "justtcg", source |-> formatJustTCGCard(card)[i].source, name |-> Pika,
     prices |-> NoPayload, price |-> formatJustTCGCard(card)[i].price,
     reported |-> IF Len(card.variants) = 0 THEN NoPrice ELSE card.variants[i].price]
AppCandidates ==
    {SheetCandidate(pr) : pr \in {NoPrice, Cents(450)}}
        \cup {TcgdexCandidate(pp) :
                pp \in {NoPayload, [NoPayload EXCEPT !.avg = Cents(100)],
                        [NoPayload EXCEPT !.avg = Cents(100), !.holofoil = Cents(200)],
                        [NoPayload EXCEPT !.normal = 12340]}}
JustCandidates ==
    {JustCandidate(JustRawA, 1), JustCandidate(JustRawA, 2), JustCandidate(JustRawB, 1),
     JustCandidate(JustRawD, 1)}

\* The value of a list price input: empty / not a number, or a number.
ListedPriceInputs == {NoPrice, 0, Cents(1000)}

NoCandidate ==
    [origin |-> "none", source |-> "undefined", name |-> Null, prices |-> NoPayload,
     price |-> NoPrice, reported |-> NoPrice]
NoSel == [page |-> "none", candidate |-> NoCandidate, listedPrice |-> 0, saved |-> FALSE]
NoCardPayload == [name |-> Null, price |-> NoPrice, source |-> "undefined", listedPrice |-> 0]

IvInit ==
    /\ ivSel = NoSel
    /\ ivPayload = NoCardPayload
    /\ inventory = <<>>

\* app.js: price: marketPrice ? parseFloat(marketPrice) * 100 : 0
AppPayloadPrice(marketPrice) == IF marketPrice # NoPrice THEN marketPrice * 100 ELSE 0
\* app.js addCardToInventory: cardPayload.card
AppCardPayload(card, listedPrice) ==
    [name |-> card.name, price |-> AppPayloadPrice(extractMarketPrice(card.prices)),
     source |-> "tcgdex", listedPrice |-> listedPrice]
\* justtcg-app.js selectCard: { ...card, listedPrice, source: 'justtcg' }
JustCardPayload(card, listedPrice) ==
    [name |-> card.name, price |-> card.price, source |-> "justtcg", listedPrice |-> listedPrice]

\* addCard: market_price: cardData.card.price ? (cardData.card.price / 100) : 0
StoredMarketPrice(price) == IF TruthyNumber(price) THEN price \div 100 ELSE 0
\* addCard: the row it inserts
InventoryItem(card) ==
    [card_name |-> card.name, market_price |-> StoredMarketPrice(card.price),
     listed_price |-> card.listedPrice,
     source |-> IF card.source = "undefined" THEN "unknown" ELSE card.source]

\* app.js: the admin clicks 'Add to Inventory' on a listed card; the click
\* handler checks the list price and addCardToInventory posts the payload.
IvAddCardToInventory ==
    /\ ivSel.page = "none"
    /\ \E card \in AppCandidates, listedPrice \in ListedPriceInputs :
        /\ listedPrice # NoPrice /\ listedPrice > 0
        /\ ivSel' = [page |-> "app", candidate |-> card, listedPrice |-> listedPrice,
                     saved |-> FALSE]
        /\ ivPayload' = AppCardPayload(card, listedPrice)
    /\ UNCHANGED inventory
    /\ UNCHANGED <<fwVars, rsVars, adVars, rtVars, pfVars, pgVars>>

\* justtcg-app.js: the admin clicks 'Select This Card'.
IvSelectCard ==
    /\ ivSel.page = "none"
    /\ \E card \in JustCandidates, listedPrice \in ListedPriceInputs :
        /\ listedPrice # NoPrice /\ listedPrice >= 0
        /\ ivSel' = [page |-> "justtcg", candidate |-> card, listedPrice |-> listedPrice,
                     saved |-> FALSE]
        /\ ivPayload' = JustCardPayload(card, listedPrice)
    /\ UNCHANGED inventory
    /\ UNCHANGED <<fwVars, rsVars, adVars, rtVars, pfVars, pgVars>>

\* POST /api/add-to-inventory: addCard inserts the row, or the insert fails
\* and the route answers 500.
IvAddToInventory ==
    /\ ivSel.page # "none"
    /\ ~ivSel.saved
    /\ ivPayload # NoCardPayload
    /\ Len(inventory) < MaxDbRows
    /\ \/ /\ inventory' = Append(inventory, InventoryItem(ivPayload))
          /\ ivSel' = [ivSel EXCEPT !.saved = TRUE]
          /\ UNCHANGED ivPayload
       \/ /\ ivPayload' = NoCardPayload
          /\ UNCHANGED <<ivSel, inventory>>
    /\ UNCHANGED <<fwVars, rsVars, adVars, rtVars, pfVars, pgVars>>

\* The page is cleared after the answer (or the admin gives up).
IvDone ==
    /\ ivSel.page # "none"
    /\ ivSel.saved \/ ivPayload = NoCardPayload \/ Len(inventory) = MaxDbRows
    /\ ivSel' = NoSel
    /\ ivPayload' = NoCardPayload
    /\ UNCHANGED inventory
    /\ UNCHANGED <<fwVars, rsVars, adVars, rtVars, pfVars, pgVars>>

IvNext == IvAddCardToInventory \/ IvSelectCard \/ IvAddToInventory \/ IvDone

(***************************************************************************)
(* The other routes that write: PUT and DELETE /api/cards/:id              *)
(* (routes/cards.js), POST /api/add-to-inventory (server.js)               *)
(***************************************************************************)

\* The ids a request names: the rows there can be, and one there is not.
CardIds == 1..(MaxDbRows + 1)

\* PUT /api/cards/:id: requireAdmin, then update(updateData).eq("id", id).
RtCardsUpdate ==
    /\ rtReq.route = "none"
    /\ \E token \in Tokens, id \in CardIds, marketprice \in {Cents(700)}, fails \in BOOLEAN,
          status \in {500, 404} :
        IF requireAdmin(token) # 0
        THEN RtRejected("cards-update", token, FALSE)
        ELSE /\ rtReq' = [NoReq EXCEPT !.route = "cards-update", !.token = token]
             /\ rtQueries' = <<>>
             /\ IF fails \/ id \notin DOMAIN dbCards
                THEN rtResp' = ErrorResp(IF fails THEN 500 ELSE status) /\ dbCards' = dbCards
                ELSE /\ rtResp' = [status |-> 200, source |-> dbCards[id].source,
                                   cards |-> <<>>, count |-> 0]
                     /\ dbCards' = [dbCards EXCEPT ![id].marketprice = marketprice]
             /\ UNCHANGED uploadsDir
    /\ UNCHANGED <<fwVars, rsVars, adVars, ivVars, pfVars, pgVars>>

\* DELETE /api/cards/:id: requireAdmin, then delete().eq("id", id).
RtCardsDelete ==
    /\ rtReq.route = "none"
    /\ \E token \in Tokens, id \in CardIds, fails \in BOOLEAN :
        IF requireAdmin(token) # 0
        THEN RtRejected("cards-delete", token, FALSE)
        ELSE /\ rtReq' = [NoReq EXCEPT !.route = "cards-delete", !.token = token]
             /\ rtQueries' = <<>>
             /\ IF fails
                THEN rtResp' = ErrorResp(500) /\ dbCards' = dbCards
                ELSE /\ rtResp' = [status |-> 200, source |-> "none", cards |-> <<>>,
                                   count |-> 0]
                     /\ dbCards' = IF id \in DOMAIN dbCards
                                   THEN SubSeq(dbCards, 1, id - 1)
                                            \o SubSeq(dbCards, id + 1, Len(dbCards))
                                   ELSE dbCards
             /\ UNCHANGED uploadsDir
    /\ UNCHANGED <<fwVars, rsVars, adVars, ivVars, pfVars, pgVars>>

\* POST /api/add-to-inventory as the server sees it: any request, whatever
\* its Authorization header; 400 without a card, else addCard(inventoryItem).
RtAddToInventory ==
    /\ rtReq.route = "none"
    /\ Len(inventory) < MaxDbRows
    /\ \E token \in Tokens, hasCard \in BOOLEAN, card \in JustCandidates, fails \in BOOLEAN :
        /\ rtReq' = [NoReq EXCEPT !.route = "add-to-inventory", !.token = token,
                                  !.name = IF hasCard THEN card.name ELSE Null]
        /\ rtQueries' = <<>>
        /\ IF ~hasCard
           THEN rtResp' = ErrorResp(400) /\ inventory' = inventory
           ELSE IF fails
           THEN rtResp' = ErrorResp(500) /\ inventory' = inventory
           ELSE /\ rtResp' = [status |-> 200, source |-> "justtcg", cards |-> <<>>,
                              count |-> 0]
                /\ inventory' = Append(inventory,
                                       InventoryItem(JustCardPayload(card, Cents(1000))))
    /\ UNCHANGED <<dbCards, uploadsDir, ivSel, ivPayload>>
    /\ UNCHANGED <<fwVars, rsVars, adVars, pfVars, pgVars>>


(***************************************************************************)
(* The functions of the pipeline, each applied to arguments of its own:    *)
(* ranking, price extraction, matching                                     *)
(***************************************************************************)

Jungle == <<"J", "u", "n", "g", "l", "e">>

\* Cards as handleUpload holds them: set.name, set.id and the market price
\* extractMarketPrice finds.
AppRankCards ==
    {[name |-> Pika, setName |-> Base, setId |-> <<"b", "a", "s", "e", "1">>, price |-> Cents(500)],
     [name |-> Pika, setName |-> Jungle, setId |-> <<"s", "v", "1">>, price |-> Cents(5000)],
     [name |-> PikaV, setName |-> Base, setId |-> <<"b", "a", "s", "e", "1">>, price |-> Cents(900)]}
\* The lists of at most MaxCards different cards.
AppRankLists ==
    {l \in UNION {[1..n -> AppRankCards] : n \in 0..MaxCards} :
        \A i, j \in DOMAIN l : i # j => l[i] # l[j]}

PfInit ==
    /\ pfFn = "none"
    /\ pfArgs = <<>>
    /\ pfOut = <<>>

\* frontend/app.js handleUpload: cards = sortCardsByRelevance(cards, aiCard.name),
\* aiCard.set being the set the identification named.
PfSortCardsByRelevance ==
    /\ pfFn = "none"
    /\ \E cards \in AppRankLists, name \in QueryNames, setName \in {Base, Jungle} :
        /\ pfFn' = "sortCardsByRelevance"
        /\ pfArgs' = [cards |-> cards, name |-> name, setName |-> setName]
        /\ pfOut' = sortCardsByRelevance(cards, name)
    /\ UNCHANGED <<fwVars, rsVars, adVars, rtVars, ivVars, pgVars>>

\* POST /identify-card: rankedCards for the cards JustTCG answered with and
\* aiData.setName.
PfRankCards ==
    /\ pfFn = "none"
    /\ \E data \in JustRawLists, setName \in {Base, Jungle, <<"b", "a", "s">>} :
        /\ pfFn' = "RankCards"
        /\ pfArgs' = [cards |-> FlattenJust(data), name |-> Pika, setName |-> setName]
        /\ pfOut' = RankCards(FlattenJust(data), setName)
    /\ UNCHANGED <<fwVars, rsVars, adVars, rtVars, ivVars, pgVars>>

\* pokemonTcg.js extractMarketPrice
PfExtractMarketPriceBackend ==
    /\ pfFn = "none"
    /\ \E card \in PricePayloads :
        /\ pfFn' = "extractMarketPriceBackend"
        /\ pfArgs' = card
        /\ pfOut' = extractMarketPriceBackend(card)
    /\ UNCHANGED <<fwVars, rsVars, adVars, rtVars, ivVars, pgVars>>

\* app.js extractMarketPrice
PfExtractMarketPrice ==
    /\ pfFn = "none"
    /\ \E card \in PricePayloads :
        /\ pfFn' = "extractMarketPrice"
        /\ pfArgs' = card
        /\ pfOut' = extractMarketPrice(card)
    /\ UNCHANGED <<fwVars, rsVars, adVars, rtVars, ivVars, pgVars>>

\* Rows of the sheet for matching: card_name or name, keywords or aliases.
MatchRow(sku, cardName, keywords, aliases) ==
    [sku |-> <<"S", sku>>, card_name |-> cardName, name |-> <<>>, set |-> <<"B", " ", sku>>,
     keywords |-> keywords, aliases |-> aliases]
MatchRowPool ==
    {MatchRow("1", <<"P", "i", "k", "a", "c", "h", "u">>, <<>>, <<>>),
     MatchRow("2", <<"P", "i">>, <<>>, <<>>),
     MatchRow("3", <<"E", "e", "v", "e", "e">>, <<"m", "o", "n", ";", " ", "P", "i", "k", "a">>, <<>>),
     MatchRow("0", <<"E", "e", "v", "e", "e">>, <<>>, <<"x", ",", ",", "p", "i", "k">>),
     MatchRow("1", <<"A", "b", "r", "a">>, <<" ", ";", " ", ",", " ">>, <<>>),
     MatchRow("2", <<>>, <<>>, <<>>)}
MatchSheets ==
    {l \in UNION {[1..n -> MatchRowPool] : n \in 0..MaxCards} :
        \A i, j \in DOMAIN l : i # j => l[i] # l[j]}
MatchNames == QueryNames \cup {<<"V">>, <<"P", "i", "-", "k", "a">>}

\* searchCardsInSheet(cardName, limit) on a sheet that is read.
PfSearchCardsInSheet ==
    /\ pfFn = "none"
    /\ \E rows \in MatchSheets, name \in MatchNames, limit \in {0 - 1, 0, 1, 2, REQUESTED_SHEET_LIMIT} :
        /\ pfFn' = "searchCardsInSheet"
        /\ pfArgs' = [rows |-> rows, name |-> name, limit |-> limit]
        /\ pfOut' = searchCardsInSheet("rows", SheetMatches(rows, name), limit)
    /\ UNCHANGED <<fwVars, rsVars, adVars, rtVars, ivVars, pgVars>>

\* Raw names handed to searchCardsInSheet: blank ones, ones made of the
\* characters the variations strip, possessives, common words.
LilliesDetermination ==
    <<"L", "i", "l", "l", "i", "e", "'", "s", " ", "D", "e", "t", "e", "r", "m", "i", "n", "a", "t", "i", "o", "n">>
RawNames ==
    {<<" ">>, <<" ", " ">>, <<"&">>, <<FullwidthAmp>>, <<"-">>, <<"T", "h", "e">>,
     <<" ", "A", " ", "&", " ", "b", "-", "X", " ">>,
     <<"P", "i", "k", "a", "'", "s">>,
     LilliesDetermination}

\* searchCardsInSheet: nameLower = cardName.toLowerCase().trim();
\* nameVariations = createNameVariations(nameLower)
PfCreateNameVariations ==
    /\ pfFn = "none"
    /\ \E name \in RawNames :
        /\ pfFn' = "createNameVariations"
        /\ pfArgs' = [name |-> name]
        /\ pfOut' = NameVariationsArray(Trim(ToLowerCase(name)))
    /\ UNCHANGED <<fwVars, rsVars, adVars, rtVars, ivVars, pgVars>>

\* Variations handed to extractKeyTerms: stop words on their own, a name
\* with a stop word in it, a name with every separator, a short one.
VariationPool ==
    {<<"v", "m", "a", "x">>, <<"t", "h", "e">>,
     <<"p", "i", "k", "a", "c", "h", "u", " ", "v", "m", "a", "x">>,
     <<"m", "e", "w", "-", "t", "w", "o", "_", "x", "'", "s">>,
     <<"e", "x">>}

\* matchesCard: searchTerms = extractKeyTerms(nameVariations)
PfExtractKeyTerms ==
    /\ pfFn = "none"
    /\ \E variations \in SUBSET VariationPool :
        /\ pfFn' = "extractKeyTerms"
        /\ pfArgs' = [variations |-> variations]
        /\ pfOut' = extractKeyTerms(variations)
    /\ UNCHANGED <<fwVars, rsVars, adVars, rtVars, ivVars, pgVars>>

\* The language filters of the callers ('Japanese') and the same in other
\* letter cases, one that fits no variant, and none.
LanguageFilters ==
    {Null, Japanese, <<"j", "a", "p", "a", "n", "e", "s", "e">>,
     <<"E", "N", "G", "L", "I", "S", "H">>, <<"K", "o", "r", "e", "a", "n">>}

\* formatJustTCGCards(data.data, languageFilter) for an answer of the API; a
\* card may come twice in one answer.
PfFormatJustTCGCards ==
    /\ pfFn = "none"
    /\ \E cards \in JustRawLists \cup {<<JustRawC, JustRawC>>}, languageFilter \in LanguageFilters :
        /\ pfFn' = "formatJustTCGCards"
        /\ pfArgs' = [cards |-> cards, languageFilter |-> languageFilter]
        /\ pfOut' = formatJustTCGCards(cards, languageFilter)
    /\ UNCHANGED <<fwVars, rsVars, adVars, rtVars, ivVars, pgVars>>

\* The caller has the result.
PfReturn ==
    /\ pfFn # "none"
    /\ pfFn' = "none"
    /\ pfArgs' = <<>>
    /\ pfOut' = <<>>
    /\ UNCHANGED <<fwVars, rsVars, adVars, rtVars, ivVars, pgVars>>

PfNext ==
    \/ PfSortCardsByRelevance \/ PfRankCards
    \/ PfExtractMarketPriceBackend \/ PfExtractMarketPrice
    \/ PfSearchCardsInSheet
    \/ PfCreateNameVariations \/ PfExtractKeyTerms
    \/ PfFormatJustTCGCards
    \/ PfReturn

(***************************************************************************)
(* The page of frontend/app.js: handleUpload, displayCards, the paging     *)
(* buttons and the "Add to Inventory" buttons                              *)
(***************************************************************************)

cardsPerPage == 20
\* matchingCards.slice(0, 100)
DETAIL_LIMIT == 100
\* The displayCards calls the paging buttons may leave waiting at a time, and
\* the uploads of one behaviour.
MaxPending == 2
MaxUploads == 2

\* The variables of handleUpload's resolution that the page leaves alone.
rsLocals == <<rsPc, rsName, rsCards, rsSource, rsMsg, rsRaised, rsCalls, rsInFlight,
              rsSheet, rsTcg, rsPrev>>

\* The cards found by upload u: n cards, told apart by localId.
FoundCards(u, n) == [i \in 1..n |-> [upload |-> u, localId |-> i]]
\* How many rows the sheet answers with (limit=100), and how many cards of the
\* TCGdex list match the name.
SheetCounts == {0, 3}
MatchCounts == {0, 120}

\* Math.ceil(allFoundCards.length / cardsPerPage)
TotalPages(cards) == (Len(cards) + cardsPerPage - 1) \div cardsPerPage
\* cards.slice(startIdx, endIdx)
PageCards(cards, page) ==
    SubSeq(cards, (page - 1) * cardsPerPage + 1, Min(page * cardsPerPage, Len(cards)))
\* The <li> items displayCards appends: globalIdx = startIdx + idx.
RenderedItems(cards, page) ==
    [idx \in 1..Len(PageCards(cards, page)) |->
        [index |-> (page - 1) * cardsPerPage + idx - 1, card |-> PageCards(cards, page)[idx]]]
\* updatePaginationControls()
PaginationControls(page, cards) ==
    [shown |-> TRUE, prevDisabled |-> page = 1, nextDisabled |-> page = TotalPages(cards)]
\* The inventory-count requests a displayCards call has in flight.
CountRequests(call) == Len(PageCards(call.cards, call.page))
RemoveAt(list, k) == SubSeq(list, 1, k - 1) \o SubSeq(list, k + 1, Len(list))

NoCard == [upload |-> 0, localId |-> 0]
NoAdd == [drawn |-> NoCard, added |-> NoCard]

PgInit ==
    /\ pgPc = "idle"
    /\ pgUploads = 0
    /\ detailRequests = 0
    /\ displayCalls = <<>>
    /\ cardList = <<>>
    /\ cardSelectionShown = FALSE
    /\ pagination = [shown |-> FALSE, prevDisabled |-> FALSE, nextDisabled |-> FALSE]
    /\ pgAdd = NoAdd

\* displayCards(allFoundCards, page, ...) up to its await: the list shows
\* "Loading inventory counts..." and one request for each card of the page
\* is sent.
StartDisplay(cards, page, awaited) ==
    /\ displayCalls' = Append(displayCalls, [cards |-> cards, page |-> page, awaited |-> awaited])
    /\ cardList' = <<>>

\* The click on uploadBtn with a file: the button is disabled; the image is
\* identified and the sheet is asked.
PgUploadClick ==
    /\ pgPc = "idle"
    /\ ~uploadBtnDisabled
    /\ pgUploads < MaxUploads
    /\ pgPc' = "search"
    /\ pgUploads' = pgUploads + 1
    /\ uploadBtnDisabled' = TRUE
    /\ UNCHANGED <<allFoundCards, currentPage, detailRequests, displayCalls, cardList,
                   cardSelectionShown, pagination, pgAdd>>
    /\ UNCHANGED <<fwVars, rsLocals, adVars, rtVars, ivVars, pfVars>>

\* The sheet has cards: they are sorted, stored, and page 1 is displayed.
\* It has none: fetchCardsFromTCGdex filters the list and asks for the detail
\* of the first 100 matching cards at once; without a match, and when the
\* identification or the list request fails, handleUpload reports the error.
PgSearched ==
    /\ pgPc = "search"
    /\ \E n \in SheetCounts, m \in MatchCounts, fails \in BOOLEAN :
        /\ fails => (n = 0 /\ m = 0)
        /\ IF n > 0
           THEN /\ allFoundCards' = FoundCards(pgUploads, n)
                /\ currentPage' = 1
                /\ StartDisplay(FoundCards(pgUploads, n), 1, TRUE)
                /\ pgPc' = "display"
                /\ UNCHANGED <<detailRequests, uploadBtnDisabled>>
           ELSE IF m > 0
           THEN /\ detailRequests' = Min(m, DETAIL_LIMIT)
                /\ pgPc' = "details"
                /\ UNCHANGED <<allFoundCards, currentPage, displayCalls, cardList,
                               uploadBtnDisabled>>
           ELSE /\ pgPc' = "idle"
                /\ uploadBtnDisabled' = FALSE
                /\ UNCHANGED <<allFoundCards, currentPage, detailRequests, displayCalls,
                               cardList>>
    /\ UNCHANGED <<pgUploads, cardSelectionShown, pagination, pgAdd>>
    /\ UNCHANGED <<fwVars, rsLocals, adVars, rtVars, ivVars, pfVars>>

\* Promise.all of the detail requests settles: the cards are sorted, stored,
\* and page 1 is displayed.
PgDetailed ==
    /\ pgPc = "details"
    /\ allFoundCards' = FoundCards(pgUploads, detailRequests)
    /\ currentPage' = 1
    /\ StartDisplay(FoundCards(pgUploads, detailRequests), 1, TRUE)
    /\ detailRequests' = 0
    /\ pgPc' = "display"
    /\ UNCHANGED <<pgUploads, uploadBtnDisabled, cardSelectionShown, pagination, pgAdd>>
    /\ UNCHANGED <<fwVars, rsLocals, adVars, rtVars, ivVars, pfVars>>

\* The counts of one displayCards call have all arrived: it replaces the
\* items of #cardList by its page and gives each button its click handler.
\* handleUpload, when it awaited the call, shows #cardSelection, shows or
\* hides #pagination and enables uploadBtn.
PgDisplayDone ==
    /\ \E k \in DOMAIN displayCalls :
        LET call == displayCalls[k] IN
        /\ cardList' = RenderedItems(call.cards, call.page)
        /\ displayCalls' = RemoveAt(displayCalls, k)
        /\ IF call.awaited
           THEN /\ pagination' =
                      IF TotalPages(allFoundCards) > 1
                      THEN PaginationControls(currentPage, allFoundCards)
                      ELSE [pagination EXCEPT !.shown = FALSE]
                /\ cardSelectionShown' = TRUE
                /\ uploadBtnDisabled' = FALSE
                /\ pgPc' = "idle"
           ELSE UNCHANGED <<pagination, cardSelectionShown, uploadBtnDisabled, pgPc>>
    /\ UNCHANGED <<allFoundCards, currentPage, pgUploads, detailRequests, pgAdd>>
    /\ UNCHANGED <<fwVars, rsLocals, adVars, rtVars, ivVars, pfVars>>

\* handleNextPage, for a click that changes the page.
PgNextPage ==
    /\ cardSelectionShown /\ pagination.shown /\ ~pagination.nextDisabled
    /\ Len(displayCalls) < MaxPending
    /\ currentPage < TotalPages(allFoundCards)
    /\ currentPage' = currentPage + 1
    /\ StartDisplay(allFoundCards, currentPage + 1, FALSE)
    /\ pagination' = PaginationControls(currentPage + 1, allFoundCards)
    /\ UNCHANGED <<allFoundCards, uploadBtnDisabled, pgPc, pgUploads, detailRequests,
                   cardSelectionShown, pgAdd>>
    /\ UNCHANGED <<fwVars, rsLocals, adVars, rtVars, ivVars, pfVars>>

\* handlePrevPage, for a click that changes the page.
PgPrevPage ==
    /\ cardSelectionShown /\ pagination.shown /\ ~pagination.prevDisabled
    /\ Len(displayCalls) < MaxPending
    /\ currentPage > 1
    /\ currentPage' = currentPage - 1
    /\ StartDisplay(allFoundCards, currentPage - 1, FALSE)
    /\ pagination' = PaginationControls(currentPage - 1, allFoundCards)
    /\ UNCHANGED <<allFoundCards, uploadBtnDisabled, pgPc, pgUploads, detailRequests,
                   cardSelectionShown, pgAdd>>
    /\ UNCHANGED <<fwVars, rsLocals, adVars, rtVars, ivVars, pfVars>>

\* The click on the button of an item: selectedCard = allFoundCards[idx] is
\* added (undefined makes addCardToInventory throw, the list stays); after
\* the add #cardSelection is hidden and the page state reset.  The buttons of
\* the list and of the paging are taken to answer clicks only while
\* #cardSelection is displayed.
PgAddClick ==
    /\ cardSelectionShown
    /\ \E i \in DOMAIN cardList :
        LET idx == cardList[i].index IN
        IF idx + 1 \in DOMAIN allFoundCards
        THEN /\ pgAdd' = [drawn |-> cardList[i].card, added |-> allFoundCards[idx + 1]]
             /\ cardSelectionShown' = FALSE
             /\ allFoundCards' = <<>>
             /\ currentPage' = 1
        ELSE /\ pgAdd' = [drawn |-> cardList[i].card, added |-> NoCard]
             /\ UNCHANGED <<cardSelectionShown, allFoundCards, currentPage>>
    /\ UNCHANGED <<uploadBtnDisabled, pgPc, pgUploads, detailRequests, displayCalls, cardList,
                   pagination>>
    /\ UNCHANGED <<fwVars, rsLocals, adVars, rtVars, ivVars, pfVars>>

PgNext ==
    \/ PgUploadClick \/ PgSearched \/ PgDetailed \/ PgDisplayDone
    \/ PgNextPage \/ PgPrevPage \/ PgAddClick

Init == FwInit /\ RsInit /\ AdInit /\ RtInit /\ IvInit /\ PfInit /\ PgInit

SpecRetry == Init /\ [][FwNext]_vars

SpecResolve == Init /\ [][RsNext]_vars

\* Two resolutions, one after the other, to compare their outcomes.
SpecResolveTwice == Init /\ [][RsNextTwice]_vars

SpecAdapters == Init /\ [][AdNext]_vars

\* Two searches, one after the other, to compare what they return.
SpecAdaptersTwice == Init /\ [][AdNextTwice]_vars

RtNext ==
    \/ RtIdentifyCard \/ RtSearchCards \/ RtSearchSheet \/ RtCardsIdentify \/ RtAnswered
    \/ RtCardsUpdate \/ RtCardsDelete \/ RtAddToInventory

SpecRoutes == Init /\ [][RtNext]_vars

SpecInventory == Init /\ [][IvNext]_vars

SpecFunctions == Init /\ [][PfNext]_vars

SpecPage == Init /\ [][PgNext]_vars

(***************************************************************************)
(* Properties of the resolution chain                                      *)
(***************************************************************************)

Range(f) == {f[i] : i \in DOMAIN f}
Count(list, x) == Cardinality({i \in DOMAIN list : list[i] = x})
\* a and b hold the same candidates, each as often.
SameCandidates(a, b) ==
    /\ Len(a) = Len(b)
    /\ \A x \in Range(a) \cup Range(b) : Count(a, x) = Count(b, x)

SheetGaveCards == rsSheet.response.cards # <<>>
\* The spreadsheet source answered without failing and had no candidate.
CleanEmptySheet == {"norows", "nomatch"}
\* The spreadsheet source failed and its failure was turned into no candidate.
ErroredSheet == {"error", "unreachable"}

\* C1: the sources are invoked one at a time in priority order (spreadsheet
\* first, then TCGdex), never two at once, and after the spreadsheet source
\* returned a non-empty list TCGdex is not invoked in that call.
C1_SequentialShortCircuit ==
    /\ Cardinality(rsInFlight) <= 1
    /\ rsCalls \in {<<>>, <<"sheet">>, <<"sheet", "tcgdex">>}
    /\ ("tcgdex" \in rsInFlight => rsSheet.cond # "notcalled")
    /\ (SheetGaveCards => rsCalls = <<"sheet">> /\ rsTcg = NoTcg)

\* A resolution that ended with the spreadsheet's candidates.
C1_Witness ==
    /\ rsPc = "done"
    /\ SheetGaveCards
    /\ Len(rsCards) = 2
    /\ rsCalls = <<"sheet">>

\* C2: when the spreadsheet source returns no candidate or fails, TCGdex is
\* still invoked; a resolution that ends with candidates ends with exactly the
\* list of the first source that returned any, all of one source.
C2_FallbackNoMerge ==
    /\ (rsSheet.cond \in CleanEmptySheet \cup ErroredSheet \cup {"unconfigured"}
          => rsCalls = <<"sheet", "tcgdex">>)
    /\ (rsPc \in {"display", "done"} /\ ~rsRaised =>
          /\ rsCards # <<>>
          /\ allFoundCards = rsCards
          /\ IF SheetGaveCards
             THEN SameCandidates(rsCards, rsSheet.response.cards)
             ELSE rsTcg.cond = "cards" /\ SameCandidates(rsCards, rsTcg.list)
          /\ \A i, j \in 1..Len(rsCards) : rsCards[i].origin = rsCards[j].origin)

\* The spreadsheet request failed and TCGdex's two candidates are the result.
C2_Witness ==
    /\ rsPc = "done"
    /\ rsSheet.cond = "unreachable"
    /\ rsTcg.cond = "cards"
    /\ Len(rsCards) = 2
    /\ rsCards[1].origin = "tcgdex"
    /\ rsMsg.type = "success"

\* C9: when every source answers an empty list without failing, the
\* resolution ends normally: nothing is raised and nothing is shown as an
\* error.
C9_NoMatchIsNotAnError ==
    (rsPc = "done" /\ rsSheet.cond \in CleanEmptySheet /\ rsTcg.cond = "nomatch")
        => ~rsRaised /\ rsMsg.type # "error"

\* C10: for the same query, what the caller sees when every source failed
\* differs from what it sees when every source was cleanly empty, and a
\* source whose error was turned into an empty list is not reported as a
\* cleanly empty one is: neither in the search-sheet route's answer nor in
\* the message of handleUpload.
C10_ErroredDiffersFromEmpty ==
    (rsPc = "done" /\ rsPrev.valid /\ rsPrev.name = rsName) =>
        /\ (rsPrev.sheet \in ErroredSheet /\ rsPrev.tcg = "error"
              /\ rsSheet.cond \in CleanEmptySheet /\ rsTcg.cond = "nomatch"
              => rsPrev.msg # rsMsg)
        /\ (rsPrev.sheet = "error" /\ rsSheet.cond \in CleanEmptySheet
              => rsPrev.response # rsSheet.response)
        /\ (rsPrev.sheet \in ErroredSheet /\ rsSheet.cond \in CleanEmptySheet
              /\ rsPrev.tcg = rsTcg.cond
              => rsPrev.msg # rsMsg)

(***************************************************************************)
(* Properties of the backend routes                                        *)
(***************************************************************************)

\* The names a request supplies: its own name field and, when the
\* identification answered with JSON, the names that answer holds.
SuppliedNames ==
    {n \in {rtReq.name, rtReq.ai.cardName, rtReq.ai.cardNameJapanese} : ~Falsy(n)}

\* C11: no source is queried with an empty or absent card name: a request
\* that supplies no name (neither its own nor one from the identification)
\* is answered with a validation error before any catalog request is sent,
\* and every catalog query carries a supplied name, never a substitute.
C11_NoQueryWithoutName ==
    /\ (rtReq.route # "none" /\ rtReq.aiKind # "throws" /\ SuppliedNames = {})
          => (rtQueries = <<>> /\ rtResp.status = 400)
    /\ \A i \in DOMAIN rtQueries : rtQueries[i].q \in SuppliedNames

\* The two GET routes do validate the name (they hold what C11 asks).
C11_GetRoutesValidate ==
    rtReq.route \in {"search-sheet", "search-cards"} => C11_NoQueryWithoutName

\* The requests that look a card up: identification, catalog search, price
\* lookup.  (cards-identify-1 is the admin's manual entry.)
LookupRoutes == {"identify-card", "search-cards", "search-sheet", "cards-identify-2"}

\* C12: resolution never writes to persistent storage: no step of a card
\* lookup inserts, updates or deletes a row of the tables cards and
\* inventory.
C12_LookupNeverWrites ==
    [][rtReq'.route \in LookupRoutes => (dbCards' = dbCards /\ inventory' = inventory)]_vars

\* The lookup routes other than POST /api/cards/identify leave the tables alone.
C12_SearchRoutesNeverWrite ==
    [][rtReq'.route \in LookupRoutes \ {"cards-identify-2"}
          => (dbCards' = dbCards /\ inventory' = inventory)]_vars

\* The search endpoints and the largest list each is meant to answer with.
SearchRoutes == {"identify-card", "search-cards", "search-sheet"}
HardCapOf(route) == IF route = "search-sheet" THEN REQUESTED_SHEET_LIMIT ELSE JUSTTCG_LIMIT
PositiveBelowCap(limit, route) ==
    limit.kind = "number" /\ limit.n > 0 /\ limit.n < HardCapOf(route)

\* C15: for every requested limit (absent, not a number, zero, negative,
\* very large) the number of candidates a search endpoint answers with never
\* exceeds the endpoint's fixed cap, and never exceeds the requested limit
\* when that is a positive number below the cap.
C15_LimitAndHardCap ==
    (rtReq.route \in SearchRoutes /\ rtResp.status = 200)
        => /\ Len(rtResp.cards) <= HardCapOf(rtReq.route)
           /\ PositiveBelowCap(rtReq.limit, rtReq.route) => Len(rtResp.cards) <= rtReq.limit.n

\* GET /api/cards/search-sheet does keep to a positive requested limit.
C15_SheetRouteKeepsLimit ==
    rtReq.route = "search-sheet" => C15_LimitAndHardCap

(***************************************************************************)
(* Properties of adding a candidate to the inventory                       *)
(***************************************************************************)

\* The tag of the adapter a candidate came from.
AdapterTag(origin) ==
    IF origin = "sheet" THEN "google-sheet" ELSE IF origin = "tcgdex" THEN "tcgdex" ELSE "justtcg"
LastItem == inventory[Len(inventory)]

\* C13: provenance is preserved end to end: every candidate a page lists
\* carries the tag of the adapter that produced it, and the inventory row
\* saved from the selected candidate records that same source.
C13_ProvenancePreserved ==
    /\ ivSel.page # "none" => ivSel.candidate.source = AdapterTag(ivSel.candidate.origin)
    /\ ivSel.saved => LastItem.source = AdapterTag(ivSel.candidate.origin)

\* JustTCG candidates do keep their tag up to the saved row.
C13_JustTCGProvenance ==
    ivSel.page = "justtcg" => C13_ProvenancePreserved

\* C18: when the market price of the selected candidate is unknown, the
\* saved row does not get a market price of zero or any other number: the
\* unknown price is stored as unknown.  (The admin supplies the list price
\* only, never the market price.)
C18_UnknownPriceStoredAsUnknown ==
    (ivSel.saved /\ ivSel.candidate.reported = NoPrice) => LastItem.market_price = NoPrice

\* C19: price units are consistent from adapter to storage: the market_price
\* of the saved row equals the selected candidate's market price in dollars
\* as its source reported it, for every source.
C19_PriceUnitsConsistent ==
    (ivSel.saved /\ ivSel.candidate.reported # NoPrice)
        => LastItem.market_price = ivSel.candidate.reported

\* On the app.js page the two conversions do compose to the identity for
\* prices in whole cents.
C19_AppPageWholeCents ==
    (ivSel.saved /\ ivSel.page = "app" /\ ivSel.candidate.reported # NoPrice
        /\ ivSel.candidate.reported % 100 = 0)
        => LastItem.market_price = ivSel.candidate.reported

(***************************************************************************)
(* Properties of ranking and price extraction                              *)
(***************************************************************************)

\* The set field of a ranked card and its price.
SetFieldOf(card) == IF pfFn = "RankCards" THEN card.set_name ELSE card.setName
MatchesTarget(card) ==
    Includes(ToLowerCase(SetFieldOf(card)), ToLowerCase(pfArgs.setName))
\* out is ranked: set matches first, prices going down within each group.
RankedBySetThenPrice(out) ==
    \A i, j \in DOMAIN out :
        i < j => /\ ~(~MatchesTarget(out[i]) /\ MatchesTarget(out[j]))
                 /\ (MatchesTarget(out[i]) = MatchesTarget(out[j])
                        => out[i].price >= out[j].price)

\* C14: when a target set name is known, the ranked result is a permutation
\* of the source's candidates in which no candidate whose set field lacks
\* the target name precedes one whose set field contains it, and prices do
\* not increase among candidates of the same match status.
C14_RankedBySetThenPrice ==
    pfFn \in {"RankCards", "sortCardsByRelevance"}
        => (SameCandidates(pfOut, pfArgs.cards) /\ RankedBySetThenPrice(pfOut))

\* The ranking of POST /identify-card does what C14 asks.
C14_JustTCGRanking ==
    pfFn = "RankCards" => (SameCandidates(pfOut, pfArgs.cards) /\ RankedBySetThenPrice(pfOut))

\* A cheaper card of the target set was listed behind a dearer card of
\* another set and is ranked first.
C14_JustTCGWitness ==
    /\ pfFn = "RankCards"
    /\ Len(pfOut) >= 2
    /\ ~MatchesTarget(pfArgs.cards[1])
    /\ MatchesTarget(pfOut[1])
    /\ \E j \in DOMAIN pfOut : ~MatchesTarget(pfOut[j]) /\ pfOut[j].price > pfOut[1].price

Extractors == {"extractMarketPriceBackend", "extractMarketPrice"}
\* The value as the extractor hands it back: app.js formats it with toFixed(2).
Returned(x) == IF x = NoPrice \/ pfFn = "extractMarketPriceBackend" THEN x ELSE ToFixed2(x)

\* The priority order the price paths are to be tried in: the aggregator
\* average, then holofoil, normal, reverse holofoil, first-edition holofoil.
PriorityOrder(card) ==
    <<card.avg, card.holofoil, card.normal, card.reverseHolofoil, card.firstEdition>>
\* The first price above zero along paths, or NoPrice.
FirstPriced(paths) ==
    IF \E k \in DOMAIN paths : paths[k] > 0
    THEN paths[CHOOSE k \in DOMAIN paths :
                  paths[k] > 0 /\ \A j \in 1..(k - 1) : ~(paths[j] > 0)]
    ELSE NoPrice

\* C16: the price extractor tries the paths in the one fixed priority order
\* (aggregator average first, then the itemized prices holofoil, normal,
\* reverse holofoil, first-edition holofoil): a payload with an aggregator
\* average and itemized prices yields the aggregator average, and otherwise
\* the first itemized price in that order.
C16_FixedPriorityOrder ==
    (pfFn \in Extractors /\ FirstPriced(PriorityOrder(pfArgs)) # NoPrice)
        => pfOut = Returned(FirstPriced(PriorityOrder(pfArgs)))

\* The backend extractor follows that order.
C16_BackendOrder ==
    pfFn = "extractMarketPriceBackend" => C16_FixedPriorityOrder

\* The backend extractor is given an average and itemized prices and hands
\* back the average.
C16_BackendWitness ==
    /\ pfFn = "extractMarketPriceBackend"
    /\ pfArgs.avg > 0 /\ pfArgs.holofoil > 0 /\ pfArgs.normal > 0
    /\ pfOut = pfArgs.avg

\* The first value along paths that is not null (0 included), or NoPrice.
FirstNonNull(paths) ==
    IF \E k \in DOMAIN paths : paths[k] # NoPrice
    THEN paths[CHOOSE k \in DOMAIN paths :
                  paths[k] # NoPrice /\ \A j \in 1..(k - 1) : paths[j] = NoPrice]
    ELSE NoPrice
OwnPaths(card) ==
    IF pfFn = "extractMarketPriceBackend" THEN BackendPricePaths(card)
    ELSE FrontendPricePaths(card)

\* C17: the price extractor returns the value at the first path of its
\* priority list that holds a non-null number, the number 0 included, and
\* null exactly when no path holds one; it returns nothing else.
C17_FirstNonNullValue ==
    pfFn \in Extractors => pfOut = Returned(FirstNonNull(OwnPaths(pfArgs)))

\* For payloads without a zero price the extractors do return the first
\* non-null value of their own lists.
C17_HoldsWithoutZero ==
    (pfFn \in Extractors /\ \A k \in DOMAIN OwnPaths(pfArgs) : OwnPaths(pfArgs)[k] # 0)
        => pfOut = Returned(FirstNonNull(OwnPaths(pfArgs)))

\* The key terms extracted from the name searched for.
KeyTermsOfCall == extractKeyTerms(createNameVariations(Trim(ToLowerCase(pfArgs.name))))
DisplayNameOf(row) == Trim(ToLowerCase(OrElse(row.name, OrElse(row.card_name, <<>>))))
KeywordTokensOf(row) ==
    {Trim(k) : k \in SplitOn(Trim(ToLowerCase(OrElse(row.keywords, OrElse(row.aliases, <<>>)))),
                             {",", ";"})} \ {<<>>}
NameOverlaps(row) == \E t \in KeyTermsOfCall : Overlaps(DisplayNameOf(row), t)
KeywordOverlaps(row) ==
    \E k \in KeywordTokensOf(row) : \E t \in KeyTermsOfCall : Overlaps(k, t)
InMatchSet(row) == NameOverlaps(row) \/ KeywordOverlaps(row)
MatchSetOfCall == Pick(pfArgs.rows, {i \in DOMAIN pfArgs.rows : InMatchSet(pfArgs.rows[i])}, 1)

C3_AdaptersNeverThrow ==
    adPc = "done" =>
        /\ adResult.kind = "returned"
        /\ (adFault # "none" => adResult.list = <<>>)

\* The same, of the three adapters that catch their errors.
C3_CatchingAdaptersNeverThrow ==
    (adPc = "done" /\ adAdapter \notin {"searchJustTCGCards", "searchJapaneseCards"}) =>
        /\ adResult.kind = "returned"
        /\ (adFault # "none" => adResult.list = <<>>)

(***************************************************************************)
(* Properties of fetchWithRetry                                            *)
(***************************************************************************)

\* The retryable conditions as the specification lists them: a network-level
\* failure, HTTP 429, HTTP 5xx.
RetryableCondition(o) == ~o.ok /\ (~o.response \/ o.status = 429 \/ o.status \in 500..599)
Other4xx(o) == ~o.ok /\ o.response /\ o.status \in 400..499 /\ o.status # 429
LastOutcome == fwOutcomes[Len(fwOutcomes)]
AllRetryable(k) == \A j \in 1..k : RetryableCondition(fwOutcomes[j])

\* C4: in every execution of fetchWithRetry the number of HTTP attempts made
\* is at most 5, and a finished call has made at least 1.
C4_AttemptsBetween1And5 ==
    /\ fwAttempts <= 5
    /\ fwAttempts = Len(fwOutcomes)
    /\ (fwPc = "done" => fwAttempts >= 1)

\* A call that used its whole budget: five failures, all retryable.
C4_Witness ==
    /\ fwPc = "done"
    /\ fwAttempts = 5
    /\ fwResult.kind = "thrown"
    /\ AllRetryable(5)

\* C5: after a failed attempt that is not the fifth, the call goes on to a
\* further attempt iff the failure was a network failure, 429 or 5xx; any
\* other failure is thrown at once, so a 404 means exactly one attempt.
C5_RetryIffRetryable ==
    \A k \in 1..4 :
        (k <= Len(fwOutcomes) /\ ~fwOutcomes[k].ok) =>
            IF RetryableCondition(fwOutcomes[k])
            THEN Len(fwOutcomes) > k \/ fwPc \in {"sleep", "loop"}
            ELSE /\ Len(fwOutcomes) = k
                 /\ fwPc = "done"
                 /\ fwResult = [kind |-> "thrown", value |-> fwOutcomes[k]]

\* A server that answers 404 to the first request: one attempt, thrown.
C5_Witness ==
    /\ fwPc = "done"
    /\ fwOutcomes = <<[ok |-> FALSE, response |-> TRUE, status |-> 404, body |-> "none"]>>
    /\ fwAttempts = 1

\* C6: for every k in 0..4, k retryable failures do not end the call, and
\* when attempt k+1 then succeeds the call returns that response after
\* exactly k+1 attempts.
C6_SuccessAfterKRetries ==
    \A k \in 0..4 :
        (Len(fwOutcomes) >= k /\ AllRetryable(k)) =>
            /\ (Len(fwOutcomes) = k => fwPc # "done")
            /\ (Len(fwOutcomes) > k /\ fwOutcomes[k + 1].ok) =>
                  /\ fwPc = "done"
                  /\ fwResult = [kind |-> "returned", value |-> fwOutcomes[k + 1]]
                  /\ fwAttempts = k + 1

\* Four 503 answers, then a success on the fifth attempt.
C6_Witness ==
    /\ fwPc = "done"
    /\ Len(fwOutcomes) = 5
    /\ \A j \in 1..4 : fwOutcomes[j].response /\ fwOutcomes[j].status = 503
    /\ fwOutcomes[5].ok
    /\ fwResult.kind = "returned"

\* The kind a caller reads off the surfaced error (specification, section 7):
\* transient = no response, 429 or 5xx; permanent = anything else.
ErrorKind(err) == IF RetryableCondition(err) THEN "TransientError" ELSE "PermanentError"

\* C7: a surfaced failure is transient only when the fifth attempt failed on
\* a retryable condition, and it is permanent when the failing attempt had
\* a 4xx status other than 429.
C7_ErrorKindTellsExhaustion ==
    fwResult.kind = "thrown" =>
        /\ (fwAttempts = 5 /\ RetryableCondition(LastOutcome)
               => ErrorKind(fwResult.value) = "TransientError")
        /\ (ErrorKind(fwResult.value) = "TransientError"
               => fwAttempts = 5 /\ RetryableCondition(LastOutcome))
        /\ (Other4xx(LastOutcome) => ErrorKind(fwResult.value) = "PermanentError")

\* Both kinds are surfaced: here a permanent one after two retries.
C7_Witness ==
    /\ fwResult.kind = "thrown"
    /\ fwAttempts = 3
    /\ ErrorKind(fwResult.value) = "PermanentError"
    /\ RetryableCondition(fwOutcomes[1])

BackoffFloor == <<1000, 2000, 4000, 8000>>

\* C8: the delay after the failed attempt with index i (0..3) is in
\* [1000*2^i, 1000*2^i + 500); delays strictly increase; their sum is below
\* 17000; there is one delay per failed attempt that is followed by another
\* attempt, and none after a success, a non-retryable failure or the fifth
\* attempt.
C8_BackoffDelays ==
    /\ Len(fwDelays) <= 4
    /\ \A n \in 1..Len(fwDelays) :
          /\ n <= 4
          /\ BackoffFloor[n] <= fwDelays[n]
          /\ fwDelays[n] < BackoffFloor[n] + 500
          /\ (n > 1 => fwDelays[n - 1] < fwDelays[n])
          /\ RetryableCondition(fwOutcomes[n])
    /\ SumSeq(fwDelays) < 17000
    /\ (fwPc = "done" => Len(fwDelays) = fwAttempts - 1)
    /\ (fwPc \in {"sleep", "loop"} => Len(fwDelays) = fwAttempts)

\* Four delays were taken, each with the largest jitter.
C8_Witness ==
    /\ Len(fwDelays) = 4
    /\ fwPc = "done"
    /\ SumSeq(fwDelays) = 16996

(***************************************************************************)
(* Name variations and key terms                                           *)
(***************************************************************************)

\* The lower-cased trimmed original of the call's raw name.
TrimmedOriginal == Trim(ToLowerCase(pfArgs.name))
NoDuplicate(list) == \A i, j \in DOMAIN list : i # j => list[i] # list[j]
VariationContract ==
    /\ Len(pfOut) > 0
    /\ \E i \in DOMAIN pfOut : pfOut[i] = TrimmedOriginal
    /\ \A i \in DOMAIN pfOut : pfOut[i] # <<>>
    /\ NoDuplicate(pfOut)

\* C21: for every non-empty raw name, names made only of whitespace
\* included, the variations generated are a non-empty list that contains the
\* lower-cased trimmed original, no empty string and no duplicate.
C21_VariationsOfEveryName ==
    (pfFn = "createNameVariations" /\ pfArgs.name # <<>>) => VariationContract

\* C21, for the names that keep a character when trimmed: the contract holds.
C21_HoldsForNamesWithText ==
    (pfFn = "createNameVariations" /\ TrimmedOriginal # <<>>) => VariationContract

\* C21: the Array the model builds in insertion order holds the variations of
\* createNameVariations, each once.
C21_ArrayIsTheSet ==
    pfFn = "createNameVariations"
        => /\ {pfOut[i] : i \in DOMAIN pfOut} = createNameVariations(TrimmedOriginal)
           /\ NoDuplicate(pfOut)

\* The tokens of a variation: its pieces between whitespace, hyphens,
\* underscores and apostrophes.
TokensOf(v) == SplitOn(v, {" ", "-", "_", "'"})
KeptTokens(variations) ==
    UNION {{w \in TokensOf(v) : Len(w) >= 3 /\ w \notin stopWords} : v \in variations}

\* C22: the term set of extractKeyTerms contains no configured stop word,
\* whatever the variations are, and contains every token of three characters
\* or more that is not a stop word.
C22_NoStopWordInTerms ==
    pfFn = "extractKeyTerms"
        => /\ pfOut \cap stopWords = {}
           /\ KeptTokens(pfArgs.variations) \subseteq pfOut

\* C22: every kept token is a term, and a stop word is a term only as a
\* whole variation.
C22_StopWordOnlyAsWholeVariation ==
    pfFn = "extractKeyTerms"
        => /\ KeptTokens(pfArgs.variations) \subseteq pfOut
           /\ (pfOut \cap stopWords) \subseteq pfArgs.variations

\* A possessive: 's after a character of a word.
HasPossessive(name) ==
    \E i \in 2..(Len(name) - 1) : name[i] = "'" /\ name[i + 1] = "s" /\ IsWordChar(name[i - 1])
\* The name without its apostrophes.
ApostropheRemoved(name) == Pick(name, {i \in DOMAIN name : name[i] # "'"}, 1)
\* The name without each 's.
PossessiveRemoved(name) ==
    Pick(name,
         {i \in DOMAIN name :
             /\ ~(name[i] = "'" /\ i < Len(name) /\ name[i + 1] = "s")
             /\ ~(name[i] = "s" /\ i > 1 /\ name[i - 1] = "'")},
         1)

\* C23: for a name that contains a possessive 's, the variations include the
\* form with only the apostrophe removed and the form with the whole
\* possessive 's removed.
C23_PossessiveForms ==
    (pfFn = "createNameVariations" /\ HasPossessive(TrimmedOriginal))
        => /\ \E i \in DOMAIN pfOut : pfOut[i] = ApostropheRemoved(TrimmedOriginal)
           /\ \E i \in DOMAIN pfOut : pfOut[i] = PossessiveRemoved(TrimmedOriginal)

\* "Lillie's Determination" gives "lillies determination" and
\* "lillie determination".
C23_Witness ==
    /\ pfFn = "createNameVariations"
    /\ pfArgs.name = LilliesDetermination
    /\ HasPossessive(TrimmedOriginal)
    /\ \E i \in DOMAIN pfOut : pfOut[i] = <<"l", "i", "l", "l", "i", "e", "s", " ", "d", "e", "t", "e", "r", "m", "i", "n", "a", "t", "i", "o", "n">>
    /\ \E i \in DOMAIN pfOut : pfOut[i] = <<"l", "i", "l", "l", "i", "e", " ", "d", "e", "t", "e", "r", "m", "i", "n", "a", "t", "i", "o", "n">>

(***************************************************************************)
(* pokemonTcg.searchCardsByName: the looser first-word query               *)
(***************************************************************************)

\* A call of the price-API adapter that has the answer to its qualified query.
TcgCallAnswered ==
    /\ adAdapter = "pokemonTcg.searchCardsByName"
    /\ adPc \in {"fallback", "done"}
    /\ Len(adQueries) >= 1
\* No set identifier was resolved: the qualified query is the wildcard one.
NoSetIdResolved == adQueries[1].setId = "none"
QualifiedGaveNothing == Len(adAnswers[1]) = 0
\* The queries after the qualified one.
LooserQueries == SubSeq(adQueries, 2, Len(adQueries))
FirstWordQuery ==
    [name |-> FirstWord(CleanName(adArgs.name)), wildcard |-> TRUE, setId |-> "none"]
\* The name has a word after its first one.
HasSecondWord == \E i \in DOMAIN CleanName(adArgs.name) : CleanName(adArgs.name)[i] = " "

\* C24: in one call of searchCardsByName the looser first-word query is
\* issued at most once, and it is issued exactly when no set identifier was
\* resolved and the qualified query produced zero results.
C24_FallbackExactlyWhen ==
    TcgCallAnswered
        => /\ Len(LooserQueries) <= 1
           /\ \A i \in DOMAIN LooserQueries : LooserQueries[i] = FirstWordQuery
           /\ (Len(LooserQueries) = 1) <=> (NoSetIdResolved /\ QualifiedGaveNothing)

\* C24, amended: the looser query is issued at most once, and exactly when no
\* set identifier was resolved, the qualified query produced zero results
\* and the cleaned name has a second word; never otherwise.
C24_FallbackForNamesOfTwoWords ==
    TcgCallAnswered
        => /\ Len(LooserQueries) <= 1
           /\ \A i \in DOMAIN LooserQueries : LooserQueries[i] = FirstWordQuery
           /\ (Len(LooserQueries) = 1)
                  <=> (NoSetIdResolved /\ QualifiedGaveNothing /\ HasSecondWord)

\* A call for "Pi ka" that found nothing, asked for "Pi*" and got a card.
C24_Witness ==
    /\ TcgCallAnswered
    /\ adPc = "done"
    /\ NoSetIdResolved /\ QualifiedGaveNothing /\ HasSecondWord
    /\ Len(LooserQueries) = 1
    /\ Len(adAnswers) = 2
    /\ Len(adResult.list) = 1

\* A call with a resolved set identifier that found nothing and asked no
\* second time.
C24_WitnessSetId ==
    /\ TcgCallAnswered
    /\ adPc = "done"
    /\ ~NoSetIdResolved /\ QualifiedGaveNothing /\ HasSecondWord
    /\ Len(adQueries) = 1

(***************************************************************************)
(* formatJustTCGCards: one candidate for each sale variant                 *)
(***************************************************************************)

\* A slot <<i, j>> is variant j of card i, or <<i, 0>> for a card without
\* variants.
VariantSlots(cards) ==
    {s \in (DOMAIN cards) \X (0..2) :
        IF Len(cards[s[1]].variants) = 0 THEN s[2] = 0 ELSE s[2] \in DOMAIN cards[s[1]].variants}
\* The candidate of a slot: the variant's own price (0 when it has none),
\* condition, printing and language with the parent card's name and set.
SlotCandidate(cards, s) ==
    LET card == cards[s[1]] IN
    IF s[2] = 0
    THEN [id |-> card.id, name |-> card.name, set_name |-> card.set_name, printing |-> "null",
          condition |-> "null", language |-> Null, price |-> 0, source |-> "justtcg"]
    ELSE LET v == card.variants[s[2]]
         IN  [id |-> v.id, name |-> card.name, set_name |-> card.set_name,
              printing |-> v.printing, condition |-> v.condition, language |-> v.language,
              price |-> IF v.price = NoPrice THEN 0 ELSE v.price, source |-> "justtcg"]
\* The slots the filter lets through.
SlotPasses(cards, s, languageFilter) ==
    \/ Falsy(languageFilter)
    \/ /\ s[2] # 0
       /\ ToLowerCase(cards[s[1]].variants[s[2]].language) = ToLowerCase(languageFilter)
PassingSlots ==
    {s \in VariantSlots(pfArgs.cards) : SlotPasses(pfArgs.cards, s, pfArgs.languageFilter)}

\* C25: formatJustTCGCards returns a flat list that holds exactly one
\* candidate for each sale variant of each catalog card, and one for a card
\* without variants, each with the variant's own price, condition, printing
\* and language and the parent card's name and set; with a language filter
\* it holds exactly those whose language equals the filter, letter case
\* aside.
C25_OneCandidatePerVariant ==
    pfFn = "formatJustTCGCards"
        => /\ Len(pfOut) = Cardinality(PassingSlots)
           /\ \A s \in PassingSlots :
                 Count(pfOut, SlotCandidate(pfArgs.cards, s))
                     = Cardinality({t \in PassingSlots :
                           SlotCandidate(pfArgs.cards, t) = SlotCandidate(pfArgs.cards, s)})

\* Two cards, one with two variants: three candidates; with the filter
\* "japanese" the Japanese one alone.
C25_Witness ==
    /\ pfFn = "formatJustTCGCards"
    /\ pfArgs.cards = <<JustRawD, JustRawA>>
    /\ \/ Falsy(pfArgs.languageFilter) /\ Len(pfOut) = 3
       \/ pfArgs.languageFilter = <<"j", "a", "p", "a", "n", "e", "s", "e">> /\ Len(pfOut) = 1 /\ pfOut[1].price = Cents(500)

(***************************************************************************)
(* The page: requests in flight, and what the list shows                   *)
(***************************************************************************)

\* The inventory-count requests in flight.
CountRequestsInFlight ==
    SumSeq([k \in DOMAIN displayCalls |-> CountRequests(displayCalls[k])])

\* C26: the enrichment requests in flight at a time are at most 100 detail
\* requests and at most 20 inventory-count requests, however many cards
\* matched and however the admin clicks.
C26_RequestsInFlightCapped ==
    /\ detailRequests <= DETAIL_LIMIT
    /\ CountRequestsInFlight <= cardsPerPage

\* C26: the detail requests alone never exceed 100, and one displayCards
\* call never has more than 20 count requests.
C26_EachCallCapped ==
    /\ detailRequests <= DETAIL_LIMIT
    /\ \A k \in DOMAIN displayCalls : CountRequests(displayCalls[k]) <= cardsPerPage

\* No displayCards call is waiting and no upload runs.
PageAtRest == displayCalls = <<>> /\ pgPc = "idle"
\* What the admin sees of the list.
ListShown == IF cardSelectionShown THEN cardList ELSE <<>>

\* C30: once all pending displayCards calls have completed, currentPage is
\* between 1 and max(1, number of pages) and the list shown is the slice of
\* allFoundCards for currentPage; every "Add to Inventory" button adds the
\* card drawn next to it.
C30_ListIsCurrentPage ==
    /\ PageAtRest
        => /\ 1 <= currentPage /\ currentPage <= Max(1, TotalPages(allFoundCards))
           /\ ListShown = RenderedItems(allFoundCards, currentPage)
    /\ pgAdd.added = pgAdd.drawn

\* C30: currentPage stays between 1 and max(1, number of pages).
C30_PageInRange ==
    1 <= currentPage /\ currentPage <= Max(1, TotalPages(allFoundCards))

\* C30: at rest the list shown is the slice of allFoundCards for currentPage.
C30_SliceAtRest ==
    PageAtRest => ListShown = RenderedItems(allFoundCards, currentPage)

\* C30: a button adds the card drawn next to it.
C30_AddsCardDrawn == pgAdd.added = pgAdd.drawn

(***************************************************************************)
(* A search and the state it shares with other calls                       *)
(***************************************************************************)

\* Two finished searches of the same operation with the same arguments.
SameSearchTwice ==
    /\ adPc = "done"
    /\ adPrev.valid
    /\ adPrev.adapter = adAdapter
    /\ adPrev.args = adArgs
\* The source answered the same query alike in both.
SourceAnsweredAlike ==
    \A i \in DOMAIN adPrev.queries : \A j \in DOMAIN adQueries :
        (i \in DOMAIN adPrev.answers /\ j \in DOMAIN adAnswers /\ adPrev.queries[i] = adQueries[j])
            => adPrev.answers[i] = adAnswers[j]
ModuleStateFree ==
    {"searchCardsInSheet", "TCGdex.searchCardsByName", "searchJustTCGCards", "searchJapaneseCards"}

\* C27: what a search returns depends only on its own arguments and on the
\* answers of the source: two searches with the same arguments, to which the
\* source answers each query alike, send the same queries and return the
\* same candidates, whatever initPokemonTcgData or another call wrote in
\* between.
C27_ResultOwnQueryAndAnswers ==
    (SameSearchTwice /\ SourceAnsweredAlike)
        => /\ adPrev.queries = adQueries
           /\ adPrev.result = adResult

\* C27, for the operations that read no module-level variable.
C27_OtherAdaptersOwnQuery ==
    (SameSearchTwice /\ SourceAnsweredAlike /\ adAdapter \in ModuleStateFree)
        => /\ adPrev.queries = adQueries
           /\ adPrev.result = adResult

\* C27, for pokemonTcg.searchCardsByName when the set-id map is the same at
\* both calls.
C27_SameMapSameResult ==
    (SameSearchTwice /\ SourceAnsweredAlike /\ adAdapter = "pokemonTcg.searchCardsByName"
        /\ adArgs.name # <<>>
        /\ (adPrev.queries[1].setId = "none") = (adQueries[1].setId = "none"))
        => /\ adPrev.queries = adQueries
           /\ adPrev.result = adResult


(***************************************************************************)
(* C28: writes and the admin token                                         *)
(***************************************************************************)

WriteRoutes ==
    {"cards-identify-1", "cards-identify-2", "cards-identify-3", "cards-update",
     "cards-delete", "add-to-inventory"}
Arrives(routes) == rtReq.route = "none" /\ rtReq'.route \in routes
RejectedUntouched ==
    /\ rtResp'.status \in {401, 403}
    /\ dbCards' = dbCards
    /\ inventory' = inventory
    /\ uploadsDir' = uploadsDir

\* C28: a request to a writing route (identify, update, delete,
\* add-to-inventory) that carries no valid admin token is answered 401 or 403
\* and leaves the cards table, the inventory table and the uploads untouched.
C28_NoWriteWithoutAdmin ==
    [][(Arrives(WriteRoutes) /\ rtReq'.token # "admin") => RejectedUntouched]_vars

\* The routes of routes/cards.js do so.
C28_CardsRoutesGuarded ==
    [][(Arrives(WriteRoutes \ {"add-to-inventory"}) /\ rtReq'.token # "admin")
          => RejectedUntouched]_vars

\* A row is in the inventory although the request had no admin token.
C28_InsertedWithoutToken ==
    /\ rtReq.route = "add-to-inventory"
    /\ rtReq.token # "admin"
    /\ rtResp.status = 200
    /\ inventory # <<>>

(***************************************************************************)
(* C29: the uploaded file of POST /api/cards/identify                      *)
(***************************************************************************)

CardsIdentifyRoutes == {"cards-identify-1", "cards-identify-2", "cards-identify-3"}

\* C29: when the handler of POST /identify is done, the file upload.single
\* stored for the request is no longer on disk, whatever the exit path.
C29_UploadDeletedOnEveryExit ==
    (rtReq.route \in CardsIdentifyRoutes /\ rtReq.stored) => ~rtReq.onDisk

\* It is so on the exits of the AI mode: success, AI failure, price lookup
\* without a match, database error.
C29_DeletedInAiMode ==
    (rtReq.route = "cards-identify-2" /\ rtReq.stored) => ~rtReq.onDisk

\* Only the requests of POST /identify leave files behind.
C29_FilesLeftOnlyByIdentify ==
    [][uploadsDir' # uploadsDir
          => (rtReq'.route \in {"cards-identify-1", "cards-identify-3"} /\ rtReq'.stored)]_vars

\* A manual-mode request with a file was answered and its file is still there.
C29_FileLeftBehind ==
    /\ rtReq.route = "cards-identify-1"
    /\ rtReq.stored /\ rtReq.onDisk
    /\ rtResp.status = 200
    /\ uploadsDir > 0

====
